---- MODULE Spec2Model ----
(***************************************************************************)
(* Model of the poly-scraper ingester: the trades worker (backfill and     *)
(* incremental poll), the markets fetcher, the candle worker's catch-up    *)
(* loop, and the trade / market normalizers, identity generators and bulk  *)
(* sink.                                                                   *)
(*                                                                         *)
(* Time is counted in ticks.  An optional value (Python None) is the empty *)
(* sequence, a present value x is <<x>>.                                   *)
(***************************************************************************)
EXTENDS Integers, Sequences, FiniteSets, TLC

\* ------------------------------------------------------------------ bounds
\* last tick of the model clock
MaxTime == 3
\* TRADES_PAGE_SIZE (environment setting)
PageSize == 2
\* TRADES_BACKFILL_WINDOW_MINUTES (environment setting), in ticks
WindowWidth == 2
\* TRADES_BACKFILL_DAYS (environment setting), in ticks
BackfillLookback == 3
\* page requests counted exactly per backfill window; past it only the parity
\* of the count is kept
MaxReqs == 4

\* page indices saturate here: no window of the model has that many pages
PageCap == MaxTime + 2

\* CANDLES_LOOKBACK_MINUTES (environment setting), in ticks
CandlesLookback == 3
\* CANDLES_TRADES_FETCH_LIMIT (environment setting)
FetchLimit == 2

\* ticks of the clock in a day
TicksPerDay == 2
\* calls of bulk_upsert_trades per behaviour
MaxCalls == 2

\* ORDERBOOK_DEPTH, and the cycles of the orderbook worker that are followed
OrderbookDepth == 2

\* the TokenBucket of an API key: the tokens added per tick, in halves of a
\* token, and the largest burst capacity and daily cap of an environment
RateHalves == 1
MaxBurst == 3
MaxDailyCap == 2
MaxCycles == 2

\* fetch_all_markets: the ceiling of safety_pages
SafetyPagesLimit == 10000

None == <<>>
Some(x) == <<x>>
\* the first of two numbers, whichever is smaller
MinLeft(a, b) == a

Min(a, b) == IF a < b THEN a ELSE b
\* n + 1 for a request counter
CountReq(n) == IF n < MaxReqs THEN n + 1 ELSE MaxReqs - 1

\* bulk_upsert_trades: "_op_type"
TradeOpType == "index"

\* ------------------------------------------------------------------ state
VARIABLES
    clock,      \* wall clock (ticks)
    upstream,   \* timestamps of the trades the upstream holds (one per tick)
    upStyle,    \* response shape / pagination idiom of the trades upstream
    ckpt,       \* trades checkpoint file: [st |-> "absent"|"corrupt"|"ok", ts]
    tpc,        \* position of run_trades_worker
    bnow,       \* backfill_trades: now
    t0,         \* backfill_trades: t0
    t1,         \* backfill_trades: t1
    cursor,     \* backfill_trades: cursor
    page,       \* backfill_trades: page
    submitted,  \* trades handed to helpers.bulk by bulk_upsert_trades
    stored,     \* trades the store accepted
    last_ts,    \* run_trades_worker: last_ts of the poll request in flight
    now_iso,    \* run_trades_worker: now_iso of the poll request in flight
    wreqs,      \* page requests issued so far in the current backfill window
    pollres,    \* run_trades_worker: what the poll cycle before the sleep did
    reqfail,    \* an upstream request of the trades worker failed since its last sleep
    mpc,        \* position of run_markets_worker
    safety_pages, \* fetch_all_markets: safety_pages
    mcursor,    \* fetch_all_markets: cursor
    mpage,      \* fetch_all_markets: page
    moffset,    \* fetch_all_markets: offset, counted in pages of page_size
    mreqs,      \* page requests issued by the current fetch_all_markets call
    mres,       \* run_markets_worker: how fetch_all_markets ended and what was upserted
    cpc,        \* position of run_candles_worker
    cckpt,      \* candle checkpoint files, one per configured interval
    cnow,       \* run_candles_worker: now
    ci,         \* run_candles_worker: index of the interval in CANDLES_INTERVALS
    cb,         \* run_candles_worker: bstart
    trades_v1,  \* the trade documents the candles worker queries, by document id
    candles_v1, \* documents of the candles_v1 index
    cres,       \* run_candles_worker: how the calls of the last bucket ended
    rawA,       \* a raw trade as the upstream returns it
    rawB,       \* another raw trade
    tstore,     \* documents of the trades_v1-* partitions: [index, id, src]
    out,        \* per raw trade, what the last normalization of it gave
    wcount,     \* per raw trade, how many times the store accepted a write of it
    ncalls,     \* calls of bulk_upsert_trades so far
    lastCall,   \* the last call of bulk_upsert_trades and how it ended
    created_at, \* created_at of the market document built last
    tasks,      \* main: per worker, where its task is
    mainpc,     \* position of main
    rpc,        \* per concurrent candles worker, its position in the shared bucket
    rtrades,    \* per concurrent candles worker, the trades its query returned
    rorder,     \* the concurrent candles workers in the order of their queries
    presp,      \* a page loop seen alone: the response to its last request
    pmarkets,   \* a page loop seen alone: the locals of fetch_all_markets
    ptrades,    \* a page loop seen alone: the locals of the loop of backfill_trades
    opc,        \* position of run_orderbook_worker
    ots,        \* orderbook worker: the timestamp of the cycle
    om,         \* orderbook worker: index of the market being polled
    oside,      \* orderbook worker: index of the side being polled
    ob,         \* orderbook worker: what the last _fetch_top_n returned
    snapshots,  \* the documents of index orderbook_snapshots_v1
    ockpt,      \* the orderbook checkpoint file
    ocycles,    \* orderbook worker: cycles started
    apipc,      \* the API process: "off" or "serving"
    apienv,     \* the API process: burst and API_DAILY_CAP of its environment
    buckets,    \* _buckets: per API key, its TokenBucket or None
    lastreq,    \* the outcome of the last call of require_rate_limit
    grants      \* per API key, the calls of allow() that returned true in the
                \* UTC day of the clock

tradesVars == <<clock, upstream, upStyle, ckpt, tpc, bnow, t0, t1, cursor, page,
                submitted, stored, last_ts, now_iso, wreqs, pollres, reqfail>>

marketsVars == <<mpc, safety_pages, mcursor, mpage, moffset, mreqs, mres>>

candlesVars == <<cpc, cckpt, cnow, ci, cb, trades_v1, candles_v1, cres>>

sinkVars == <<rawA, rawB, tstore, out, wcount, ncalls, lastCall, created_at>>

mainVars == <<tasks, mainpc>>

raceVars == <<rpc, rtrades, rorder>>

pagingVars == <<presp, pmarkets, ptrades>>

bookVars == <<opc, ots, om, oside, ob, snapshots, ockpt, ocycles>>

apiVars == <<apipc, apienv, buckets, lastreq, grants>>

\* what the steps of one worker leave alone
TradesOnly == UNCHANGED <<marketsVars, candlesVars, sinkVars, mainVars, raceVars, pagingVars, bookVars, apiVars>>
MarketsOnly == UNCHANGED <<tradesVars, candlesVars, sinkVars, mainVars, raceVars, pagingVars, bookVars, apiVars>>
SinkOnly == UNCHANGED <<tradesVars, marketsVars, candlesVars, mainVars, raceVars, pagingVars, bookVars, apiVars>>
MainOnly == UNCHANGED <<tradesVars, marketsVars, candlesVars, sinkVars, raceVars, pagingVars, bookVars, apiVars>>
CandlesOnly == UNCHANGED <<marketsVars, sinkVars, mainVars, raceVars, pagingVars, bookVars, apiVars, upstream, upStyle, ckpt, tpc, bnow, t0, t1, cursor,
                           page, submitted, stored, last_ts, now_iso, wreqs,
                           pollres, reqfail>>

Times == 0..MaxTime
UpStyles == {"cursor", "page", "list", "stuck"}

CkAbsent == [st |-> "absent", ts |-> 0]
CkCorrupt == [st |-> "corrupt", ts |-> 0]
CkOk(t) == [st |-> "ok", ts |-> t]

\* ------------------------------------------------------- trades upstream
\* records the upstream holds for a window (from may be None: unbounded below)
Window(from, to) ==
    {r \in upstream : (from = None \/ r >= from[1]) /\ r <= to}

Rank(r, S) == Cardinality({x \in S : x <= r})

\* the records of S (ascending) at positions off+1 .. off+lim
PageAt(S, off, lim) == {r \in S : Rank(r, S) > off /\ Rank(r, S) <= off + lim}

\* fetch_trades: the (data, next_cursor, next_page) the worker extracts from the
\* response to GET ?from&to&cursor&page&limit
FetchTrades(from, to, cur, pg, lim) ==
    LET W == Window(from, to)
        k == IF pg = None THEN 1 ELSE pg[1]
    IN  CASE upStyle = "cursor" ->
               LET q == IF cur = None THEN [f |-> from, t |-> to, o |-> 0] ELSE cur[1]
                   Wq == Window(q.f, q.t)
               IN  [data |-> PageAt(Wq, q.o, lim),
                    next_cursor |-> IF q.o + lim < Cardinality(Wq)
                                    THEN Some([f |-> q.f, t |-> q.t, o |-> q.o + lim])
                                    ELSE None,
                    next_page |-> None]
          [] upStyle = "page" ->
               [data |-> PageAt(W, (k - 1) * lim, lim),
                next_cursor |-> None,
                next_page |-> Some(k + 1)]
          [] upStyle = "list" ->
               [data |-> PageAt(W, (k - 1) * lim, lim),
                next_cursor |-> None,
                next_page |-> None]
          [] OTHER ->
               [data |-> PageAt(W, 0, lim),
                next_cursor |-> None,
                next_page |-> None]

\* ------------------------------------------------------ trades checkpoint
\* _load_checkpoint()["last_ts"]: None when the file is absent or unreadable
LoadLastTs == IF ckpt.st = "ok" THEN Some(ckpt.ts) ELSE None

\* how Path.write_text can end: the text is written; mkdir or open fails and
\* the file is as before; open has truncated the file and the write fails
SaveOutcomes == {"written", "untouched", "truncated"}

\* a save that writes the start of the lookback before the time it is given
SaveCheckpointLookback(t, res) ==
    CASE res = "written" -> CkOk(t - BackfillLookback)
      [] res = "truncated" -> CkCorrupt
      [] OTHER -> ckpt

\* _save_checkpoint: the file after a save of t that ends as res
SaveCheckpoint(t, res) ==
    CASE res = "written" -> CkOk(t)
      [] res = "truncated" -> CkCorrupt
      [] OTHER -> ckpt

\* the poll cycle has not called bulk_upsert_trades, or the call raised
PollNone == [n |-> 0, count |-> None, errors |-> {}, save |-> "none"]

\* --------------------------------------------------------- trades worker
\* backfill_trades: the start of the first window
BackfillStartTime(last, now) ==
    IF last = None THEN now - BackfillLookback ELSE last[1]

\* the start_iso of the incremental poll: state.get("last_ts")
PollStart(last, now) == last

\* backfill_trades is left (by return or by exception): its locals are gone
LeaveBackfill ==
    /\ tpc' = "poll"
    /\ bnow' = 0 /\ t0' = 0 /\ t1' = 0
    /\ cursor' = None /\ page' = None
    /\ wreqs' = 0

\* backfill_trades: the locals after a non-empty page r, and whether the page
\* loop goes round again
BackfillAdvance(cur, pg, r) ==
    IF r.next_cursor # None
    THEN [cursor |-> r.next_cursor, page |-> None, more |-> TRUE]
    ELSE IF r.next_page # None
    THEN [cursor |-> None, page |-> r.next_page, more |-> TRUE]
    ELSE IF Cardinality(r.data) < PageSize
    THEN [cursor |-> cur, page |-> pg, more |-> FALSE]
    ELSE [cursor |-> cur,
          page |-> Some(Min((IF pg = None \/ pg = Some(0) THEN 1 ELSE pg[1]) + 1, PageCap)),
          more |-> TRUE]

\* the page loop of backfill_trades goes round once more in the same window
NextPage(cur, pg) ==
    /\ cursor' = cur
    /\ page' = pg
    /\ wreqs' = CountReq(wreqs)
    /\ UNCHANGED <<ckpt, bnow, t0, t1, tpc>>

\* backfill_trades from its call to its first page request
BackfillStart ==
    /\ tpc = "start"
    /\ LET start == BackfillStartTime(LoadLastTs, clock)
       IN  IF start < clock
           THEN /\ bnow' = clock
                /\ t0' = start
                /\ t1' = Min(start + WindowWidth, clock)
                /\ cursor' = None
                /\ page' = None
                /\ wreqs' = 0
                /\ tpc' = "backfill"
           ELSE LeaveBackfill
    /\ UNCHANGED <<clock, upstream, upStyle, ckpt, submitted, stored, last_ts, now_iso,
                   pollres, reqfail>>
    /\ TradesOnly

\* the end of a backfill window: checkpoint, then the next window or return
EndWindow(saveRes) ==
    /\ ckpt' = SaveCheckpoint(t1, saveRes)
    /\ IF t1 < bnow
       THEN /\ t0' = t1
            /\ t1' = Min(t1 + WindowWidth, bnow)
            /\ page' = None
            /\ wreqs' = 0
            /\ UNCHANGED <<bnow, cursor, tpc>>
       ELSE LeaveBackfill

\* one iteration of the page loop of backfill_trades
BackfillPage ==
    /\ tpc = "backfill"
    /\ \/ \* the request fails: the exception leaves backfill_trades
          /\ LeaveBackfill
          /\ reqfail' = TRUE
          /\ UNCHANGED <<ckpt, submitted, stored>>
       \/ LET r == FetchTrades(Some(t0), t1, cursor, page, PageSize)
          IN  IF r.data = {}
              THEN \E saveRes \in SaveOutcomes :
                      /\ EndWindow(saveRes)
                      /\ UNCHANGED <<submitted, stored, reqfail>>
              ELSE \/ \* helpers.bulk raises
                      /\ LeaveBackfill
                      /\ submitted' = submitted \cup r.data
                      /\ UNCHANGED <<ckpt, stored, reqfail>>
                   \/ \E rej \in SUBSET r.data, saveRes \in SaveOutcomes :
                      /\ submitted' = submitted \cup r.data
                      /\ stored' = stored \cup (r.data \ rej)
                      /\ UNCHANGED reqfail
                      /\ LET nx == BackfillAdvance(cursor, page, r)
                         IN  IF nx.more
                             THEN NextPage(nx.cursor, nx.page)
                             ELSE EndWindow(saveRes)
    /\ UNCHANGED <<clock, upstream, upStyle, last_ts, now_iso, pollres>>
    /\ TradesOnly

\* bulk_upsert_trades reporting no success as soon as one document is rejected
PollCountAllOrNothing(data, rej) == IF rej = {} THEN Cardinality(data) ELSE 0

\* bulk_upsert_trades: int(success), the number of documents of data that
\* helpers.bulk reports as written when the store rejects those of rej
PollCount(data, rej) == Cardinality(data \ rej)

\* the incremental poll of run_trades_worker, from the top of a cycle to its
\* request
PollRequest ==
    /\ tpc = "poll"
    /\ tpc' = "pollwait"
    /\ last_ts' = PollStart(LoadLastTs, clock)
    /\ now_iso' = clock
    /\ UNCHANGED <<clock, upstream, upStyle, ckpt, bnow, t0, t1, cursor, page,
                   submitted, stored, wreqs, pollres, reqfail>>
    /\ TradesOnly

\* the rest of the poll cycle, from the response to the sleep
PollResponse ==
    /\ tpc = "pollwait"
    /\ tpc' = "sleep"
    /\ last_ts' = None
    /\ now_iso' = 0
    /\ \/ \* the request fails
          /\ reqfail' = TRUE
          /\ pollres' = PollNone
          /\ UNCHANGED <<ckpt, submitted, stored>>
       \/ LET r == FetchTrades(last_ts, now_iso, None, None, PageSize)
          IN  IF r.data = {}
              THEN \* bulk_upsert_trades returns 0 for an empty list
                   /\ pollres' = [PollNone EXCEPT !.count = Some(0)]
                   /\ UNCHANGED <<ckpt, submitted, stored, reqfail>>
              ELSE \/ \* helpers.bulk raises
                      /\ submitted' = submitted \cup r.data
                      /\ pollres' = [PollNone EXCEPT !.n = Cardinality(r.data)]
                      /\ UNCHANGED <<ckpt, stored, reqfail>>
                   \/ \E rej \in SUBSET r.data, saveRes \in SaveOutcomes :
                      LET count == PollCount(r.data, rej)
                      IN  /\ submitted' = submitted \cup r.data
                          /\ stored' = stored \cup (r.data \ rej)
                          /\ ckpt' = IF count # 0
                                     THEN SaveCheckpoint(now_iso, saveRes)
                                     ELSE ckpt
                          /\ pollres' = [n |-> Cardinality(r.data),
                                         count |-> Some(count),
                                         errors |-> rej,
                                         save |-> IF count # 0 THEN saveRes ELSE "none"]
                          /\ UNCHANGED reqfail
    /\ UNCHANGED <<clock, upstream, upStyle, bnow, t0, t1, cursor, page, wreqs>>
    /\ TradesOnly

\* asyncio.sleep(poll_ms / 1000) returns
PollSleep ==
    /\ tpc = "sleep"
    /\ tpc' = "poll"
    /\ pollres' = PollNone
    /\ reqfail' = FALSE
    /\ UNCHANGED <<clock, upstream, upStyle, ckpt, bnow, t0, t1, cursor, page,
                   submitted, stored, last_ts, now_iso, wreqs>>
    /\ TradesOnly

\* time passes.  backfill_trades reads the clock once, at its start, so a tick
\* during the backfill is the same as a tick right after it
Tick ==
    /\ tpc \in {"off", "poll", "pollwait", "sleep"}
    /\ cpc \in {"off", "cycle", "sleep"}
    /\ clock < MaxTime
    /\ clock' = clock + 1
    /\ UNCHANGED <<upstream, upStyle, ckpt, tpc, bnow, t0, t1, cursor, page,
                   submitted, stored, last_ts, now_iso, wreqs, pollres, reqfail>>
    /\ UNCHANGED <<marketsVars, candlesVars, sinkVars, mainVars, raceVars, pagingVars, bookVars, apiVars>>

\* the trades worker starts (or restarts) with any checkpoint file on disk
InitTrades ==
    /\ clock \in Times
    /\ upstream \in SUBSET Times
    /\ upStyle \in UpStyles
    /\ ckpt \in {CkAbsent, CkCorrupt} \cup {CkOk(t) : t \in 0..clock}
    /\ tpc = "start"
    /\ bnow = 0 /\ t0 = 0 /\ t1 = 0
    /\ cursor = None /\ page = None
    /\ submitted = {} /\ stored = {}
    /\ last_ts = None /\ now_iso = 0
    /\ wreqs = 0
    /\ pollres = PollNone /\ reqfail = FALSE

TradesStep == BackfillStart \/ BackfillPage \/ PollRequest \/ PollResponse \/ PollSleep

TradesNext == TradesStep \/ Tick

\* ENABLE_TRADES_INGESTER=false: run_trades_worker is never started
TradesOff ==
    /\ clock = 0 /\ upstream = {} /\ upStyle = "list" /\ ckpt = CkAbsent
    /\ tpc = "off"
    /\ bnow = 0 /\ t0 = 0 /\ t1 = 0
    /\ cursor = None /\ page = None
    /\ submitted = {} /\ stored = {}
    /\ last_ts = None /\ now_iso = 0
    /\ wreqs = 0
    /\ pollres = PollNone /\ reqfail = FALSE

\* -------------------------------------------------------- markets worker
\* the cursor tokens a markets response may carry
MarketCursors == {"c1", "c2"}

\* fetch_all_markets: the locals after a non-empty page r of n records, and
\* whether the loop goes round again; the offset is counted in pages
MarketsAdvance(cur, pg, off, r) ==
    IF r.next_cursor # None
    THEN [cursor |-> r.next_cursor, page |-> None, offset |-> None, more |-> TRUE]
    ELSE IF r.next_page # None
    THEN [cursor |-> None, page |-> r.next_page, offset |-> None, more |-> TRUE]
    ELSE IF r.n < PageSize
    THEN [cursor |-> cur, page |-> pg, offset |-> off, more |-> FALSE]
    ELSE [cursor |-> None, page |-> None,
          offset |-> Some(Min((IF off = None THEN 0 ELSE off[1]) + 1, PageCap)),
          more |-> TRUE]

\* the non-empty pages the model's upstream answers fetch_all_markets with
MarketPages ==
    {[n |-> PageSize, next_cursor |-> Some(c), next_page |-> None] : c \in MarketCursors}
    \cup {[n |-> PageSize, next_cursor |-> None, next_page |-> Some(Min(p + 1, PageCap))] :
             p \in 0..PageCap}
    \cup {[n |-> k, next_cursor |-> None, next_page |-> None] : k \in {1, PageSize}}

\* the loop of fetch_all_markets goes round once more
MarketsNextPage(cur, pg, off) ==
    /\ mcursor' = cur
    /\ mpage' = pg
    /\ moffset' = off
    /\ mpc' = "fetch"
    /\ UNCHANGED mres

\* fetch_all_markets has not ended in the current cycle
MresNone == [fetch |-> "none", upserted |-> 0]

\* a cycle that upserts the pages collected before the request that failed
MarketsUpsertedPartial(outcome, pages) == pages

\* run_markets_worker: the pages of records handed to bulk_upsert_markets in a
\* cycle whose fetch_all_markets ended as outcome after collecting pages pages
MarketsUpserted(outcome, pages) == IF outcome = "raised" THEN 0 ELSE pages

\* fetch_all_markets is left (by return or by exception); run_markets_worker
\* upserts what it returned, if it returned, and sleeps
MarketsLeave(outcome, pages) ==
    /\ mpc' = "sleep"
    /\ mres' = [fetch |-> outcome, upserted |-> MarketsUpserted(outcome, pages)]
    /\ UNCHANGED <<mcursor, mpage, moffset>>

OverCeilingOffByOne(n) == n > SafetyPagesLimit + 1

\* safety_pages > 10000
OverCeiling(n) == n > SafetyPagesLimit

\* one iteration of the loop of fetch_all_markets
MarketsPage ==
    /\ mpc = "fetch"
    /\ safety_pages' = safety_pages + 1
    /\ IF OverCeiling(safety_pages + 1)
       THEN /\ MarketsLeave("returned", safety_pages)
            /\ UNCHANGED mreqs
       ELSE /\ mreqs' = mreqs + 1
            /\ \/ \* the request fails: the exception leaves fetch_all_markets
                  MarketsLeave("raised", safety_pages)
               \/ \* an empty page
                  MarketsLeave("returned", safety_pages)
               \/ \* a non-empty page
                  \E r \in MarketPages :
                     LET nx == MarketsAdvance(mcursor, mpage, moffset, r)
                     IN  IF nx.more
                         THEN MarketsNextPage(nx.cursor, nx.page, nx.offset)
                         ELSE MarketsLeave("returned", safety_pages + 1)
    /\ MarketsOnly

\* asyncio.sleep(poll_ms / 1000) returns and the next cycle calls
\* fetch_all_markets
MarketsSleep ==
    /\ mpc = "sleep"
    /\ mpc' = "fetch"
    /\ safety_pages' = 0
    /\ mcursor' = None /\ mpage' = None /\ moffset' = Some(0)
    /\ mreqs' = 0
    /\ mres' = MresNone
    /\ MarketsOnly

InitMarkets ==
    /\ mpc = "fetch"
    /\ safety_pages = 0
    /\ mcursor = None /\ mpage = None /\ moffset = Some(0)
    /\ mreqs = 0
    /\ mres = MresNone

\* the markets worker's locals while no cycle of it is modelled
MarketsIdle ==
    /\ mpc = "idle"
    /\ safety_pages = 0
    /\ mcursor = None /\ mpage = None /\ moffset = Some(0)
    /\ mreqs = 0
    /\ mres = MresNone

MarketsStep == MarketsPage \/ MarketsSleep

\* -------------------------------------------------------- candles worker
\* CANDLES_INTERVALS, each "<n><unit>"; a tick is a minute
Intervals == <<[n |-> 1, unit |-> "m"], [n |-> 2, unit |-> "m"]>>

\* _interval_to_timedelta, in ticks; None stands for the ValueError
IntervalToTimedelta(interval) ==
    IF interval.unit = "m" THEN Some(interval.n)
    ELSE IF interval.unit = "h" THEN Some(60 * interval.n)
    ELSE None

CandleLoadCheckpointIgnoresFile(i, default_start) == default_start

\* _load_checkpoint(interval, default_start)
CandleLoadCheckpoint(i, default_start) ==
    IF cckpt[i].st = "ok" THEN cckpt[i].ts ELSE default_start

\* a save that writes another time than the one it is given
CandleSaveCheckpointEarly(i, t, res) ==
    CASE res = "written" -> CkOk(t - 1)
      [] res = "truncated" -> CkCorrupt
      [] OTHER -> cckpt[i]

\* _save_checkpoint(interval, open_time): the file of interval i after a save
\* that ends as res
CandleSaveCheckpoint(i, t, res) ==
    CASE res = "written" -> CkOk(t)
      [] res = "truncated" -> CkCorrupt
      [] OTHER -> cckpt[i]

\* the bucket start taken without alignment
AlignDownNot(t, step) == t

\* _bucket_range: the first bucket start, aligned to the step
AlignDown(t, step) == t - (t % step)

\* the catch-up loop run up to now instead of now - step
CatchUpEndAtNow(now, step) == now

\* _bucket_range(t0, now - step, step): the end the loop runs up to
CatchUpEnd(now, step) == now - step

\* _bucket_range: while t < end
BucketInRange(t, end) == t < end

\* document ids of the stored trades, in the order of the _id sort
TradeIds == 1..3

\* the _source of a stored trade as the normalizer can have written it: price
\* and size are left out when the upstream value is not a number, market_id
\* is empty when the upstream record names no market
TradeSamples ==
    {[ts |-> 0, market_id |-> "a", price |-> Some(1), size |-> Some(1)],
     [ts |-> 0, market_id |-> "a", price |-> Some(2), size |-> Some(2)],
     [ts |-> 1, market_id |-> "a", price |-> Some(3), size |-> Some(1)],
     [ts |-> 0, market_id |-> "b", price |-> Some(1), size |-> Some(1)],
     [ts |-> 0, market_id |-> "a", price |-> None, size |-> None],
     [ts |-> 0, market_id |-> "", price |-> Some(1), size |-> Some(1)]}

\* "sort": ts ascending, then _id ascending
RECURSIVE SortHits(_)
SortHits(ids) ==
    IF ids = {} THEN <<>>
    ELSE LET k == CHOOSE k \in ids : \A j \in ids :
                      \/ trades_v1[k].ts < trades_v1[j].ts
                      \/ trades_v1[k].ts = trades_v1[j].ts /\ k <= j
         IN  <<k>> \o SortHits(ids \ {k})

\* the ids the range query of _fetch_trades matches: gte t0, lt t1
RangeHits(bstart, bend) ==
    {k \in DOMAIN trades_v1 : trades_v1[k].ts >= bstart /\ trades_v1[k].ts < bend}

\* _fetch_trades(client, t0, t1, size): the ids of the hits returned
FetchTradeIds(bstart, bend, size) ==
    LET hits == SortHits(RangeHits(bstart, bend))
    IN  SubSeq(hits, 1, Min(size, Len(hits)))

\* _fetch_trades(client, t0, t1, size): the _source of each hit
CandleFetchTrades(bstart, bend, size) ==
    LET ids == FetchTradeIds(bstart, bend, size)
    IN  [n \in 1..Len(ids) |-> trades_v1[ids[n]]]

\* _compute_candles: _price and _size
Price(x) == IF x.price = None THEN 0 ELSE x.price[1]
Size(x) == IF x.size = None THEN 0 ELSE x.size[1]

\* the high taken from the first row alone
RowsMaxOfFirst(rows) == Price(Head(rows))

RowsMax(rows) ==
    CHOOSE p \in {Price(rows[n]) : n \in 1..Len(rows)} :
        \A n \in 1..Len(rows) : Price(rows[n]) <= p
RowsMin(rows) ==
    CHOOSE p \in {Price(rows[n]) : n \in 1..Len(rows)} :
        \A n \in 1..Len(rows) : p <= Price(rows[n])
RECURSIVE RowsVolume(_)
RowsVolume(rows) ==
    IF rows = <<>> THEN 0 ELSE Size(Head(rows)) + RowsVolume(Tail(rows))

\* _compute_candles: by_market[market_id]
MarketRows(trades, market_id) == SelectSeq(trades, LAMBDA x : x.market_id = market_id)

\* _compute_candles(trades, interval, bucket_start)
ComputeCandles(trades, interval, bucket_start) ==
    {[market_id |-> m, interval |-> interval, open_time |-> bucket_start,
      open |-> Price(Head(MarketRows(trades, m))),
      high |-> RowsMax(MarketRows(trades, m)),
      low |-> RowsMin(MarketRows(trades, m)),
      close |-> Price(MarketRows(trades, m)[Len(MarketRows(trades, m))]),
      volume |-> RowsVolume(MarketRows(trades, m))] :
        m \in {trades[n].market_id : n \in 1..Len(trades)} \ {""}}

\* _bulk_index_candles: doc_id
CandleId(d) == <<d.market_id, d.interval, d.open_time>>

\* a bulk write that adds the documents and leaves the stored ones in place
BulkIndexCandlesAppend(accepted) == candles_v1 \cup accepted

\* _bulk_index_candles: the index after the store accepted the documents of
\* accepted, each written with _op_type "index"
BulkIndexCandles(accepted) ==
    {d \in candles_v1 : \A c \in accepted : CandleId(c) # CandleId(d)} \cup accepted

\* no bucket has been processed since the last interval or sleep
CresNone == [bulk |-> "none", save |-> "none", replaced |-> FALSE]

\* some document of accepted takes the place of a stored candle that differs
Replaces(accepted) ==
    \E c \in accepted : \E d \in candles_v1 : CandleId(c) = CandleId(d) /\ c # d

\* the catch-up loop of an interval is over: the next interval, or the sleep
CandleNextInterval ==
    IF ci < Len(Intervals)
    THEN /\ ci' = ci + 1
         /\ cb' = 0
         /\ cpc' = "interval"
         /\ UNCHANGED cnow
    ELSE /\ cpc' = "sleep"
         /\ cnow' = 0 /\ ci' = 1 /\ cb' = 0

\* an exception inside the cycle: the except clause, then the sleep
CandleAbort ==
    /\ cpc' = "sleep"
    /\ cnow' = 0 /\ ci' = 1 /\ cb' = 0

\* the top of a cycle: now is read
CandleCycle ==
    /\ cpc = "cycle"
    /\ cnow' = clock
    /\ ci' = 1
    /\ cb' = 0
    /\ cpc' = "interval"
    /\ UNCHANGED <<clock, cckpt, trades_v1, candles_v1, cres>>
    /\ CandlesOnly

\* an interval of the cycle, up to its first bucket
CandleInterval ==
    /\ cpc = "interval"
    /\ LET step == IntervalToTimedelta(Intervals[ci])
       IN  IF step = None
           THEN CandleAbort
           ELSE LET first == AlignDown(CandleLoadCheckpoint(ci, cnow - CandlesLookback),
                                       step[1])
                IN  IF BucketInRange(first, CatchUpEnd(cnow, step[1]))
                    THEN /\ cb' = first
                         /\ cpc' = "bucket"
                         /\ UNCHANGED <<cnow, ci>>
                    ELSE CandleNextInterval
    /\ cres' = CresNone
    /\ UNCHANGED <<clock, cckpt, trades_v1, candles_v1>>
    /\ CandlesOnly

\* one bucket: fetch its trades, compute and write its candles, checkpoint
CandleBucket ==
    /\ cpc = "bucket"
    /\ LET step == IntervalToTimedelta(Intervals[ci])[1]
           bend == cb + step
           trades == CandleFetchTrades(cb, bend, FetchLimit)
           candles == ComputeCandles(trades, Intervals[ci], cb)
       IN  \/ \* the trade query raises
              /\ CandleAbort
              /\ cres' = [bulk |-> "skipped", save |-> "none", replaced |-> FALSE]
              /\ UNCHANGED <<cckpt, candles_v1>>
           \/ \* the bulk write: the store accepts some of the documents
              \E accepted \in SUBSET candles :
              /\ candles_v1' = BulkIndexCandles(accepted)
              /\ \/ \* helpers.bulk raises
                    /\ candles # {}
                    /\ CandleAbort
                    /\ cres' = [bulk |-> "raised", save |-> "none",
                                replaced |-> Replaces(accepted)]
                    /\ UNCHANGED cckpt
                 \/ \E saveRes \in SaveOutcomes :
                    /\ cres' = [bulk |-> "returned", save |-> saveRes,
                                replaced |-> Replaces(accepted)]
                    /\ cckpt' = [cckpt EXCEPT ![ci] = CandleSaveCheckpoint(ci, bend, saveRes)]
                    /\ IF BucketInRange(bend, CatchUpEnd(cnow, step))
                       THEN /\ cb' = bend
                            /\ UNCHANGED <<cpc, cnow, ci>>
                       ELSE CandleNextInterval
    /\ UNCHANGED <<clock, trades_v1>>
    /\ CandlesOnly

\* asyncio.sleep(poll_ms / 1000) returns
CandleSleep ==
    /\ cpc = "sleep"
    /\ cpc' = "cycle"
    /\ cres' = CresNone
    /\ UNCHANGED <<clock, cckpt, cnow, ci, cb, trades_v1, candles_v1>>
    /\ CandlesOnly

\* the checkpoints the candles worker can find on disk: none, an unreadable
\* one, or one it saved (the end of a bucket of that interval, in the past)
CandleCheckpoints(i, now) ==
    {CkAbsent, CkCorrupt} \cup
    {CkOk(t) : t \in {u \in 1..now : u % IntervalToTimedelta(Intervals[i])[1] = 0}}

InitCandles ==
    /\ cpc = "cycle"
    /\ cckpt \in [1..Len(Intervals) -> UNION {CandleCheckpoints(i, MaxTime) : i \in 1..Len(Intervals)}]
    /\ \A i \in 1..Len(Intervals) : cckpt[i] \in CandleCheckpoints(i, clock)
    /\ cnow = 0 /\ ci = 1 /\ cb = 0
    /\ candles_v1 = {}
    /\ cres = CresNone

\* ENABLE_CANDLES_WORKER=false: run_candles_worker is never started
CandlesOff ==
    /\ cpc = "off"
    /\ cckpt = [i \in 1..Len(Intervals) |-> CkAbsent]
    /\ cnow = 0 /\ ci = 1 /\ cb = 0
    /\ trades_v1 = [k \in TradeIds |-> [ts |-> 0, market_id |-> "", price |-> None, size |-> None]]
    /\ candles_v1 = {}
    /\ cres = CresNone

CandlesStep == CandleCycle \/ CandleInterval \/ CandleBucket \/ CandleSleep

\* the trades a running trades worker adds to the store: of a market that has
\* a trade already and of another one, in the oldest bucket and in the next
LateTrades ==
    {d \in TradeSamples : d.market_id # "" /\ d.price \in {Some(2), Some(3)}}
    \cup {d \in TradeSamples : d.market_id = "b"}

\* the trades worker stores one more trade while the candles worker runs
CandleTradeStored ==
    /\ cpc # "off"
    /\ \E k \in TradeIds \ DOMAIN trades_v1 :
          /\ \A j \in DOMAIN trades_v1 : j < k
          /\ \E d \in LateTrades :
                trades_v1' = [j \in DOMAIN trades_v1 \cup {k} |->
                                 IF j = k THEN d ELSE trades_v1[j]]
    /\ UNCHANGED <<clock, cpc, cckpt, cnow, ci, cb, candles_v1, cres>>
    /\ CandlesOnly

\* the process is killed inside a cycle and started again.  Killed in the body
\* of the bucket loop, it may have had some candles accepted, and it may have
\* been anywhere in _save_checkpoint: before write_text opened the file, after
\* open truncated it, or after the text was written
CandleCrash ==
    /\ cpc \in {"interval", "bucket"}
    /\ cpc' = "cycle"
    /\ cnow' = 0 /\ ci' = 1 /\ cb' = 0
    /\ cres' = CresNone
    /\ IF cpc = "interval"
       THEN UNCHANGED <<cckpt, candles_v1>>
       ELSE LET step == IntervalToTimedelta(Intervals[ci])[1]
                bend == cb + step
                candles == ComputeCandles(CandleFetchTrades(cb, bend, FetchLimit),
                                          Intervals[ci], cb)
            IN  \E accepted \in SUBSET candles, saveRes \in SaveOutcomes :
                   /\ candles_v1' = BulkIndexCandles(accepted)
                   /\ cckpt' = [cckpt EXCEPT ![ci] = CandleSaveCheckpoint(ci, bend, saveRes)]
    /\ UNCHANGED <<clock, trades_v1>>
    /\ CandlesOnly

\* ------------------------------------------- trade normalizer and bulk sink
\* JSON values.  Seconds are counted in days of 86400 s, so the JSON number
\* 1704067200 is JInt(19723) and 1704067200000 is JInt(19723000).  A string is
\* the decimal text of a number (Digits), an ISO-8601 text of an instant with an
\* explicit UTC suffix (IsoStr), or any other text (Word).
JInt(n) == [t |-> "int", n |-> n, f |-> 0, x |-> ""]
Digits(n) == [t |-> "digits", n |-> n, f |-> 0, x |-> ""]
IsoStr(d, f, sfx) == [t |-> "iso", n |-> d, f |-> f, x |-> sfx]
Word(w) == [t |-> "word", n |-> 0, f |-> 0, x |-> w]
EmptyStr == Word("")

IsNumber(v) == v.t = "int"
IsString(v) == v.t \in {"digits", "iso", "word"}

\* the truth value Python gives trade.get(key)
Truthy(o) == o # None /\ o[1] # JInt(0) /\ o[1] # EmptyStr

\* a or b
PyOr(a, b) == IF Truthy(a) THEN a ELSE b

\* str(o or "")
PyStr(o) ==
    IF ~Truthy(o) THEN EmptyStr
    ELSE IF IsNumber(o[1]) THEN Digits(o[1].n)
    ELSE o[1]

\* str.lower
LowerText(w) ==
    CASE w = "BUY" -> "buy"
      [] w = "SELL" -> "sell"
      [] OTHER -> w
Lower(v) == IF v.t = "word" THEN Word(LowerText(v.x)) ELSE v

\* float(v): None stands for the exception
PyFloat(v) == IF v.t \in {"int", "digits"} THEN Some(v.n) ELSE None

\* the wall clock: day and time of day of tick w (tick 0 is 2024-01-08T00:00Z)
WallDay(w) == 19730 + (w \div TicksPerDay)
WallNow(w) == [d |-> WallDay(w), f |-> w % TicksPerDay]

\* datetime.fromtimestamp(int(n), tz=utc): None stands for the ValueError of a
\* year outside 1..9999 (9999-12-31 is day 2932896, 0001-01-01 is day -719162)
FromTimestamp(n) ==
    IF n >= -719162 /\ n <= 2932896 THEN Some([d |-> n, f |-> 0]) ELSE None

\* datetime.fromisoformat(s.replace("Z", "+00:00")).astimezone(utc): None stands
\* for the ValueError
FromIsoFormat(s) == IF s.t = "iso" THEN Some([d |-> s.n, f |-> s.f]) ELSE None

\* dt.isoformat() of a UTC datetime
IsoFormat(dt) == IsoStr(dt.d, dt.f, "+00:00")

\* to_es_doc(trade) at wall-clock tick w: None stands for an exception
TradeToEsDoc(trade, w) ==
    LET ts_val == PyOr(trade.ts, trade.timestamp)
        parsed == IF ts_val # None /\ IsNumber(ts_val[1]) THEN FromTimestamp(ts_val[1].n)
                  ELSE IF ts_val # None /\ IsString(ts_val[1])
                       THEN IF FromIsoFormat(ts_val[1]) # None
                            THEN FromIsoFormat(ts_val[1])
                            ELSE Some(WallNow(w))
                  ELSE Some(WallNow(w))
    IN  IF parsed = None THEN None
        ELSE Some([ts |-> IsoFormat(parsed[1]),
                   market_id |-> IF trade.market_id # None THEN trade.market_id
                                 ELSE trade.conditionId,
                   price |-> IF trade.price = None THEN None ELSE PyFloat(trade.price[1]),
                   size |-> IF trade.size = None THEN None ELSE PyFloat(trade.size[1]),
                   side |-> IF trade.side # None /\ IsString(trade.side[1])
                            THEN Some(Lower(trade.side[1]))
                            ELSE None])

\* generate_trade_id(trade); sha1 is taken to be free of collisions, and the raw
\* trades here carry no txHash key
GenerateTradeId(trade) ==
    LET tx == PyStr(trade.transactionHash)
        asset == PyStr(trade.asset)
        ts == PyStr(PyOr(trade.timestamp, trade.ts))
    IN  IF tx # EmptyStr /\ asset # EmptyStr /\ ts # EmptyStr
        THEN [kind |-> "tx", parts |-> <<tx, asset, ts>>]
        ELSE [kind |-> "sha1",
              parts |-> <<PyStr(PyOr(trade.conditionId, trade.market_id)), asset,
                          PyStr(trade.side), PyStr(trade.price), PyStr(trade.size), ts>>]

\* index_for_timestamp(ts) at wall-clock tick w: the day of the partition
IndexForTimestamp(s, w) ==
    IF FromIsoFormat(s) # None THEN FromIsoFormat(s)[1].d ELSE WallDay(w)

\* the bulk action bulk_upsert_trades builds for one element of its batch: None
\* stands for an exception (t.get on a non-object, or one out of to_es_doc)
TradeAction(t, w) ==
    IF ~t.obj THEN None
    ELSE LET ts_val == PyOr(t.ts, t.timestamp)
             ts_str == IF Truthy(ts_val) THEN PyStr(ts_val) ELSE IsoFormat(WallNow(w))
             doc == TradeToEsDoc(t, w)
         IN  IF doc = None THEN None
             ELSE Some([op |-> TradeOpType,
                        index |-> IndexForTimestamp(ts_str, w),
                        id |-> GenerateTradeId(t),
                        src |-> doc[1]])

\* the store after one bulk action that it accepts
StoreApply(S, a) ==
    IF a.op = "index"
    THEN {d \in S : ~(d.index = a.index /\ d.id = a.id)}
             \cup {[index |-> a.index, id |-> a.id, src |-> a.src]}
    ELSE IF \E d \in S : d.index = a.index /\ d.id = a.id
         THEN S
         ELSE S \cup {[index |-> a.index, id |-> a.id, src |-> a.src]}

\* the store after the accepted ones of a sequence of bulk actions, in order
RECURSIVE StoreApplyAll(_, _, _)
StoreApplyAll(S, acts, accepted) ==
    IF acts = <<>> THEN S
    ELSE StoreApplyAll(IF Head(acts).who \in accepted
                       THEN StoreApply(S, Head(acts).act) ELSE S,
                       Tail(acts), accepted)

\* _to_iso(value) for a number
ToIsoNumber(n) ==
    LET dt == IF n > 11574074
              THEN IF FromTimestamp(n \div 1000) = None THEN None
                   ELSE Some([d |-> n \div 1000, f |-> ((n % 1000) * TicksPerDay) \div 1000])
              ELSE FromTimestamp(n)
    IN  IF dt = None THEN None ELSE Some(IsoFormat(dt[1]))

\* _to_iso(value) of the markets worker: None is its return value None
ToIso(o) ==
    IF o = None THEN None
    ELSE IF IsNumber(o[1]) THEN ToIsoNumber(o[1].n)
    ELSE IF FromIsoFormat(o[1]) # None THEN Some(IsoFormat(FromIsoFormat(o[1])[1]))
    ELSE IF o[1].t = "digits" THEN ToIsoNumber(o[1].n)
    ELSE None

\* doc["created_at"] of to_es_doc(market) for a market whose created_at is o
MarketCreatedAt(o) == IF Truthy(ToIso(o)) THEN ToIso(o) ELSE o

\* the raw trades of the model: the timestamp is absent, epoch seconds, epoch
\* milliseconds, the decimal text of epoch seconds, ISO-8601 or some other text
TsSamples ==
    {None, Some(JInt(19723)), Some(JInt(19723000)), Some(Digits(19723)),
     Some(IsoStr(19723, 0, "Z")), Some(Word("n/a"))}

\* an element of the upstream's list that is not a JSON object
Junk ==
    [obj |-> FALSE, ts |-> None, timestamp |-> None, market_id |-> None,
     conditionId |-> None, price |-> None, size |-> None, side |-> None,
     transactionHash |-> None, asset |-> None]

\* a trade object that names no market: neither market_id nor conditionId
NoMarket ==
    [obj |-> TRUE, ts |-> None, timestamp |-> Some(JInt(19723)), market_id |-> None,
     conditionId |-> None, price |-> Some(JInt(1)), size |-> Some(JInt(2)),
     side |-> Some(Word("buy")),
     transactionHash |-> Some(Word("0xa")), asset |-> Some(Word("a1"))]

RawTrades ==
    {[obj |-> TRUE, ts |-> None, timestamp |-> tsv, market_id |-> None,
      conditionId |-> Some(Word("m1")), price |-> Some(JInt(1)), size |-> Some(JInt(2)),
      side |-> Some(Word(sd)),
      transactionHash |-> Some(Word("0xa")), asset |-> Some(Word("a1"))] :
        tsv \in TsSamples, sd \in {"BUY", "buy"}}
    \cup {Junk, NoMarket}

Who == {"A", "B"}
Raw(w) == IF w = "A" THEN rawA ELSE rawB
Batches == {<<"A">>, <<"B">>, <<"A", "B">>}
Labels(batch) == {batch[i] : i \in 1..Len(batch)}

\* bulk_upsert_trades(batch) at the current clock
BulkUpsertTrades ==
    /\ ncalls < MaxCalls
    /\ ncalls' = ncalls + 1
    /\ \E batch \in Batches :
         LET acts == [i \in 1..Len(batch) |-> TradeAction(Raw(batch[i]), clock)]
             fails == {i \in 1..Len(batch) : acts[i] = None}
             first == IF fails = {} THEN Len(batch) + 1
                      ELSE CHOOSE i \in fails : \A j \in fails : i <= j
             seen == {batch[i] : i \in 1..Min(first, Len(batch))}
             res(w) == LET i == CHOOSE k \in 1..Len(batch) : batch[k] = w
                       IN  IF acts[i] = None THEN <<"raised">> ELSE <<"ok", acts[i][1]>>
         IN  /\ out' = [w \in Who |-> IF w \in seen THEN res(w) ELSE out[w]]
             /\ IF fails # {}
                THEN \* the exception leaves the loop: helpers.bulk is not called
                     /\ lastCall' = Some([batch |-> batch, outcome |-> "raised",
                                          submitted |-> {}])
                     /\ UNCHANGED <<tstore, wcount>>
                ELSE \* helpers.bulk reports, or raises, after the store took some
                     \E accepted \in SUBSET Labels(batch) :
                     /\ tstore' = StoreApplyAll(tstore,
                                      [i \in 1..Len(batch) |->
                                          [who |-> batch[i], act |-> acts[i][1]]],
                                      accepted)
                     /\ wcount' = [w \in Who |->
                                      IF w \in accepted THEN wcount[w] + 1 ELSE wcount[w]]
                     /\ lastCall' = Some([batch |-> batch, outcome |-> "bulk",
                                          submitted |-> Labels(batch)])
    /\ UNCHANGED <<rawA, rawB, created_at>>
    /\ SinkOnly

\* to_es_doc(market) of the markets worker, for a market whose created_at is the
\* JSON value of rawA's timestamp
MarketToEsDoc ==
    /\ created_at = None
    /\ created_at' = Some(MarketCreatedAt(rawA.timestamp))
    /\ UNCHANGED <<rawA, rawB, tstore, out, wcount, ncalls, lastCall>>
    /\ SinkOnly

InitSink ==
    /\ rawA \in RawTrades
    /\ rawB \in RawTrades
    /\ tstore = {}
    /\ out = [w \in Who |-> <<>>]
    /\ wcount = [w \in Who |-> 0]
    /\ ncalls = 0
    /\ lastCall = None
    /\ created_at = None

\* no trade is normalized or written
SinkOff ==
    /\ rawA = Junk /\ rawB = Junk
    /\ tstore = {}
    /\ out = [w \in Who |-> <<>>]
    /\ wcount = [w \in Who |-> 0]
    /\ ncalls = 0
    /\ lastCall = None
    /\ created_at = None

SinkStep == BulkUpsertTrades \/ MarketToEsDoc

\* --------------------------------------------------------- main and its tasks
\* the workers main can start
Workers == {"markets", "trades", "candles", "orderbook"}

\* the workers main starts only when their environment flag is "true"
Optional == {"trades", "candles", "orderbook"}

\* the workers that run code outside any try block before their loop:
\* get_client() and the int(os.getenv(...)) conversions
StartupMayRaise == {"candles", "orderbook"}

\* the code of a worker before its loop (for the trades worker, up to the end
\* of the guarded backfill)
WorkerStartup ==
    /\ mainpc = "gather"
    /\ \E w \in Workers :
          /\ tasks[w] = "startup"
          /\ \/ tasks' = [tasks EXCEPT ![w] = "cycle"]
             \/ \* an exception leaves the coroutine: the task is done
                /\ w \in StartupMayRaise
                /\ tasks' = [tasks EXCEPT ![w] = "raised"]
    /\ UNCHANGED mainpc
    /\ MainOnly

\* the body of one cycle of a worker: it completes, or an exception in it is
\* caught by the worker's except clause
WorkerCycle ==
    /\ mainpc = "gather"
    /\ \E w \in Workers :
          /\ tasks[w] = "cycle"
          /\ tasks' = [tasks EXCEPT ![w] = "sleep"]
    /\ UNCHANGED mainpc
    /\ MainOnly

\* asyncio.sleep returns in a worker
WorkerSleep ==
    /\ mainpc = "gather"
    /\ \E w \in Workers :
          /\ tasks[w] = "sleep"
          /\ tasks' = [tasks EXCEPT ![w] = "cycle"]
    /\ UNCHANGED mainpc
    /\ MainOnly

\* a task is done with an exception: asyncio.gather raises it in main, main
\* re-raises it, and asyncio.run cancels the tasks that are left
GatherRaises ==
    /\ mainpc = "gather"
    /\ \E w \in Workers : tasks[w] = "raised"
    /\ mainpc' = "exited"
    /\ tasks' = [w \in Workers |->
                    IF tasks[w] \in {"startup", "cycle", "sleep"} THEN "cancelled"
                    ELSE tasks[w]]
    /\ MainOnly

\* main has created its tasks and awaits asyncio.gather
InitMain ==
    /\ mainpc = "gather"
    /\ \E enabled \in SUBSET Optional :
          tasks = [w \in Workers |->
                      IF w \in enabled \cup {"markets"} THEN "startup" ELSE "none"]

\* main and its tasks are not looked at
MainOff ==
    /\ mainpc = "off"
    /\ tasks = [w \in Workers |-> "none"]

MainStep == WorkerStartup \/ WorkerCycle \/ WorkerSleep \/ GatherRaises

\* ------------------------------------------- concurrent candles workers
\* two run_candles_worker processes (a rolling restart) that have both reached
\* the same bucket of the first interval; a trade of that bucket may reach the
\* store in between
RaceWorkers == {"old", "new"}
RaceInterval == Intervals[1]
RaceBucket == 0
RaceBucketEnd == RaceBucket + IntervalToTimedelta(RaceInterval)[1]

\* what a step of a concurrent candles worker leaves alone
RaceOnly ==
    UNCHANGED <<tradesVars, marketsVars, sinkVars, mainVars, pagingVars, bookVars, apiVars, cpc, cckpt,
                cnow, ci, cb, cres>>

\* _fetch_trades of one worker for the bucket
RaceFetch ==
    \E w \in RaceWorkers :
    /\ rpc[w] = "fetch"
    /\ rtrades' = [rtrades EXCEPT ![w] = CandleFetchTrades(RaceBucket, RaceBucketEnd, FetchLimit)]
    /\ rorder' = Append(rorder, w)
    /\ rpc' = [rpc EXCEPT ![w] = "index"]
    /\ UNCHANGED <<trades_v1, candles_v1>>
    /\ RaceOnly

\* _compute_candles and _bulk_index_candles of one worker, every document
\* accepted by the store
RaceIndex ==
    \E w \in RaceWorkers :
    /\ rpc[w] = "index"
    /\ candles_v1' = BulkIndexCandles(ComputeCandles(rtrades[w], RaceInterval, RaceBucket))
    /\ rpc' = [rpc EXCEPT ![w] = "done"]
    /\ UNCHANGED <<trades_v1, rtrades, rorder>>
    /\ RaceOnly

\* the trades worker stores one more trade of the bucket
RaceTradeStored ==
    /\ \E w \in RaceWorkers : rpc[w] # "off"
    /\ \E k \in TradeIds \ DOMAIN trades_v1 :
          /\ \A j \in DOMAIN trades_v1 : j < k
          /\ \E d \in TradeSamples :
                trades_v1' = [j \in DOMAIN trades_v1 \cup {k} |->
                                 IF j = k THEN d ELSE trades_v1[j]]
    /\ UNCHANGED <<candles_v1, raceVars>>
    /\ RaceOnly

InitRace ==
    /\ rpc = [w \in RaceWorkers |-> "fetch"]
    /\ rtrades = [w \in RaceWorkers |-> <<>>]
    /\ rorder = <<>>

\* one candles worker at most
RaceOff ==
    /\ rpc = [w \in RaceWorkers |-> "off"]
    /\ rtrades = [w \in RaceWorkers |-> <<>>]
    /\ rorder = <<>>

\* ------------------------------------------------------ orderbook worker
\* ORDERBOOK_MARKET_IDS, split at the commas
OrderbookMarketIds == <<"a", "b">>

\* the sides polled for each market, in the order of the code
OrderbookSides == <<"bid", "ask">>

\* the book the upstream holds at a time: one level more than
\* ORDERBOOK_DEPTH, not sorted, and moving with time
OrderbookLevels(t) ==
    [i \in 1..(OrderbookDepth + 1) |-> ((i + t) % (OrderbookDepth + 1)) + 1]

\* what _fetch_top_n returns when the request succeeds: None for a JSON value
\* that is not an object, else the object, with or without a list of levels
OrderbookResponses ==
    {[obj |-> FALSE, levels |-> None], [obj |-> TRUE, levels |-> None]}
    \cup {[obj |-> TRUE, levels |-> Some(OrderbookLevels(clock))]}

\* no response held
NoBook == [obj |-> FALSE, levels |-> None]

\* ob["levels"] without the slice
TopLevelsAll(levels, depth) == levels

\* ob["levels"][:ORDERBOOK_DEPTH]
TopLevels(levels, depth) == SubSeq(levels, 1, Min(Len(levels), depth))

\* the document id of _index_snapshot: market, side and timestamp joined by
\* colons; neither side name occurs in a timestamp, so the three parts can
\* be read back from the id and the id is kept as the three parts
SnapshotId(market_id, side, ts) == <<market_id, side, ts>>

\* _index_snapshot, the store accepting the document: an index operation
\* replaces the document of the same id
IndexSnapshot(market_id, side, ts, levels) ==
    {d \in snapshots : SnapshotId(d.market_id, d.side, d.ts) # SnapshotId(market_id, side, ts)}
    \cup {[market_id |-> market_id, ts |-> ts, side |-> side, levels |-> levels]}

\* _save_checkpoint of the orderbook worker
BookSaveCheckpoint(t, res) ==
    CASE res = "written" -> CkOk(t)
      [] res = "truncated" -> CkCorrupt
      [] OTHER -> ockpt

BookOnly ==
    UNCHANGED <<tradesVars, marketsVars, candlesVars, sinkVars, mainVars, raceVars,
                pagingVars, apiVars>>

\* an exception inside the cycle: the except clause, then the sleep
BookAbort ==
    /\ opc' = "sleep"
    /\ om' = 1 /\ oside' = 1
    /\ UNCHANGED <<ots, ockpt>>

\* after a poll: the next side, the next market, or the end of the cycle
\* with the checkpoint saved
BookAdvance ==
    IF oside < Len(OrderbookSides)
    THEN /\ oside' = oside + 1
         /\ UNCHANGED <<opc, om, ots, ockpt>>
    ELSE IF om < Len(OrderbookMarketIds)
    THEN /\ om' = om + 1
         /\ oside' = 1
         /\ UNCHANGED <<opc, ots, ockpt>>
    ELSE /\ \E saveRes \in SaveOutcomes : ockpt' = BookSaveCheckpoint(ots, saveRes)
         /\ opc' = "sleep"
         /\ om' = 1 /\ oside' = 1
         /\ UNCHANGED ots

\* the top of a cycle: the timestamp of the cycle is read
BookCycle ==
    /\ opc = "cycle"
    /\ ocycles < MaxCycles
    /\ ocycles' = ocycles + 1
    /\ ots' = clock
    /\ om' = 1 /\ oside' = 1
    /\ ob' = NoBook
    /\ opc' = "poll"
    /\ UNCHANGED <<snapshots, ockpt>>
    /\ BookOnly

\* one market and side: _fetch_top_n, then _index_snapshot when the response
\* has a list of levels
BookPoll ==
    /\ opc = "poll"
    /\ \/ \* the request or raise_for_status raises
          /\ BookAbort
          /\ ob' = NoBook
          /\ UNCHANGED snapshots
       \/ \E r \in OrderbookResponses :
          /\ ob' = r
          /\ IF r.obj /\ r.levels # None
             THEN \/ \* helpers.bulk raises
                     /\ BookAbort
                     /\ UNCHANGED snapshots
                  \/ \* the store rejects the document
                     /\ UNCHANGED snapshots
                     /\ BookAdvance
                  \/ /\ snapshots' = IndexSnapshot(OrderbookMarketIds[om],
                                         OrderbookSides[oside], ots,
                                         TopLevels(r.levels[1], OrderbookDepth))
                     /\ BookAdvance
             ELSE /\ UNCHANGED snapshots
                  /\ BookAdvance
    /\ UNCHANGED ocycles
    /\ BookOnly

\* asyncio.sleep(ORDERBOOK_POLL_MS / 1000) returns
BookSleep ==
    /\ opc = "sleep"
    /\ opc' = "cycle"
    /\ UNCHANGED <<ots, om, oside, ob, snapshots, ockpt, ocycles>>
    /\ BookOnly

\* time passes while the orderbook worker runs
BookTick ==
    /\ opc # "off"
    /\ clock < MaxTime
    /\ clock' = clock + 1
    /\ UNCHANGED <<upstream, upStyle, ckpt, tpc, bnow, t0, t1, cursor, page,
                   submitted, stored, last_ts, now_iso, wreqs, pollres, reqfail>>
    /\ UNCHANGED <<marketsVars, candlesVars, sinkVars, mainVars, raceVars, pagingVars,
                   bookVars, apiVars>>

InitBook ==
    /\ opc = "cycle"
    /\ ots = 0 /\ om = 1 /\ oside = 1
    /\ ob = NoBook
    /\ snapshots = {}
    /\ ockpt = CkAbsent
    /\ ocycles = 0

\* ENABLE_ORDERBOOK_WORKER=false: run_orderbook_worker is never started
BookOff ==
    /\ opc = "off"
    /\ ots = 0 /\ om = 1 /\ oside = 1
    /\ ob = NoBook
    /\ snapshots = {}
    /\ ockpt = CkAbsent
    /\ ocycles = 0

BookStep == BookCycle \/ BookPoll \/ BookSleep

\* ------------------------------------------------------- API rate limit
\* the API keys that send requests
ApiKeys == {"k1", "k2"}

\* the paths requested: an admin route and a public one
ApiPaths == {"/admin/keys", "/v1/trades"}

\* tokens are counted in halves: API_RATE_RPS is half a token per tick
TokenUnit == 2

\* the environments of the API process: burst, from API_RATE_RPS, and
\* API_DAILY_CAP
ApiEnvs == [burst : 1..MaxBurst, daily_cap : 0..MaxDailyCap]

\* int(now // 86400): the UTC day of a time
DayOf(t) == t \div TicksPerDay

\* TokenBucket.__init__ at time now
NewBucket(burst, daily_cap, now) ==
    [capacity |-> burst * TokenUnit, tokens |-> burst * TokenUnit, last |-> now,
     daily_cap |-> daily_cap, daily_used |-> 0, day_start |-> DayOf(now)]

\* TokenBucket.allow up to its first test: the refill and the reset of the
\* daily window
Refill(b, now) ==
    [b EXCEPT !.tokens = Min(b.capacity, b.tokens + (now - b.last) * RateHalves),
              !.last = now,
              !.day_start = DayOf(now),
              !.daily_used = IF DayOf(now) # b.day_start THEN 0 ELSE b.daily_used]

\* an allow() that does not test the daily cap
AllowedNoCap(b) == b.tokens >= TokenUnit

\* TokenBucket.allow: the value returned, on the bucket after the refill
Allowed(b) == b.daily_used < b.daily_cap /\ b.tokens >= TokenUnit

\* TokenBucket.allow: the bucket after a call at time now
Allow(b, now) ==
    LET r == Refill(b, now)
    IN  IF Allowed(r)
        THEN [r EXCEPT !.tokens = r.tokens - TokenUnit, !.daily_used = r.daily_used + 1]
        ELSE r

\* no request has been handled yet
NoRequest == [key |-> None, result |-> "none"]

ApiOnly ==
    UNCHANGED <<tradesVars, marketsVars, candlesVars, sinkVars, mainVars, raceVars,
                pagingVars, bookVars>>

\* require_rate_limit for one request
RequireRateLimit ==
    /\ apipc = "serving"
    /\ \E path \in ApiPaths, key \in {None} \cup {Some(k) : k \in ApiKeys} :
          IF path = "/admin/keys"
          THEN /\ lastreq' = [key |-> key, result |-> "exempt"]
               /\ UNCHANGED <<buckets, grants>>
          ELSE IF key = None
          THEN /\ lastreq' = [key |-> key, result |-> "401"]
               /\ UNCHANGED <<buckets, grants>>
          ELSE LET k == key[1]
                   bucket == IF buckets[k] = None
                             THEN NewBucket(apienv.burst, apienv.daily_cap, clock)
                             ELSE buckets[k][1]
                   ok == Allowed(Refill(bucket, clock))
               IN  /\ buckets' = [buckets EXCEPT ![k] = Some(Allow(bucket, clock))]
                   /\ lastreq' = [key |-> key, result |-> IF ok THEN "ok" ELSE "429"]
                   /\ grants' = [grants EXCEPT ![k] = IF ok THEN @ + 1 ELSE @]
    /\ UNCHANGED <<apipc, apienv>>
    /\ ApiOnly

\* time passes while the API serves; at a UTC day boundary the count of the
\* calls granted in the day starts again
ApiTick ==
    /\ apipc = "serving"
    /\ clock < MaxTime
    /\ clock' = clock + 1
    /\ grants' = IF DayOf(clock + 1) # DayOf(clock) THEN [k \in ApiKeys |-> 0] ELSE grants
    /\ UNCHANGED <<apipc, apienv, buckets, lastreq>>
    /\ UNCHANGED <<upstream, upStyle, ckpt, tpc, bnow, t0, t1, cursor, page,
                   submitted, stored, last_ts, now_iso, wreqs, pollres, reqfail>>
    /\ UNCHANGED <<marketsVars, candlesVars, sinkVars, mainVars, raceVars, pagingVars,
                   bookVars>>

InitApi ==
    /\ apipc = "serving"
    /\ apienv \in ApiEnvs
    /\ buckets = [k \in ApiKeys |-> None]
    /\ lastreq = NoRequest
    /\ grants = [k \in ApiKeys |-> 0]

\* the API process is not part of the run
ApiOff ==
    /\ apipc = "off"
    /\ apienv = [burst |-> 1, daily_cap |-> 1]
    /\ buckets = [k \in ApiKeys |-> None]
    /\ lastreq = NoRequest
    /\ grants = [k \in ApiKeys |-> 0]

\* ------------------------------------------------- the page loops alone
\* the JSON values an upstream can answer a page request with: a scalar, a
\* list of records, or an object whose `data`, cursor keys and `page` are
\* there or not, of the expected type or not
PagingCursors == {None, Some(""), Some("c1")}
PagingPages == {None, Some(0), Some(1), Some(2)}
PagingLists == {[kind |-> "list", n |-> k] : k \in {0, 1, PageSize}}
PagingNoList == {[kind |-> "absent", n |-> 0], [kind |-> "string", n |-> 0]}
PagingPayloads ==
    {[kind |-> "object", data |-> d, next_cursor |-> c, cursor |-> c2, next |-> c3,
      page |-> pg] :
        d \in PagingLists \cup PagingNoList, c \in PagingCursors,
        c2 \in {None, Some("c2")}, c3 \in {None, Some("c3")}, pg \in PagingPages}
    \cup {[kind |-> "list", data |-> d, next_cursor |-> None, cursor |-> None,
           next |-> None, page |-> None] : d \in PagingLists}
    \cup {[kind |-> k, data |-> [kind |-> "absent", n |-> 0], next_cursor |-> None,
           cursor |-> None, next |-> None, page |-> None] :
             k \in {"null", "bool", "number", "string"}}

\* a list, or an object with a list under `data`
Recognized(payload) ==
    \/ payload.kind = "list"
    \/ payload.kind = "object" /\ payload.data.kind = "list"

\* fetch_trades and fetch_markets_page after r.json(), with a string under
\* `data` taken for the records: what results when the type test is left out
NormalizePayloadAnyData(payload) ==
    [n |-> IF payload.data.kind = "string" THEN 1 ELSE payload.data.n,
     next_cursor |-> None, next_page |-> None]

\* fetch_trades and fetch_markets_page after r.json(): the number of records,
\* the cursor and the next page index they return
NormalizePayload(payload) ==
    IF payload.kind = "object"
    THEN [n |-> IF payload.data.kind = "list" THEN payload.data.n ELSE 0,
          next_cursor |-> IF payload.next_cursor # None /\ payload.next_cursor # Some("")
                          THEN payload.next_cursor
                          ELSE IF payload.cursor # None /\ payload.cursor # Some("")
                          THEN payload.cursor
                          ELSE IF payload.next # None /\ payload.next # Some("")
                          THEN payload.next
                          ELSE None,
          next_page |-> IF payload.page # None THEN Some(payload.page[1] + 1) ELSE None]
    ELSE IF payload.kind = "list"
    THEN [n |-> payload.data.n, next_cursor |-> None, next_page |-> None]
    ELSE [n |-> 0, next_cursor |-> None, next_page |-> None]

\* the records of a response of n records
PagingData(n) == 1..n

PagingOnly ==
    UNCHANGED <<tradesVars, marketsVars, candlesVars, sinkVars, mainVars, raceVars, bookVars, apiVars>>

\* the upstream answers the request in flight
PagingResponse ==
    /\ presp.handled
    /\ pmarkets.more \/ ptrades.more
    /\ \E payload \in PagingPayloads : presp' = [payload |-> Some(payload), handled |-> FALSE]
    /\ UNCHANGED <<pmarkets, ptrades>>
    /\ PagingOnly

\* fetch_all_markets: from a response to the next request, or out of the loop
PagingMarkets ==
    /\ ~presp.handled /\ pmarkets.more
    /\ LET r == NormalizePayload(presp.payload[1])
       IN  pmarkets' = IF r.n = 0
                       THEN [pmarkets EXCEPT !.more = FALSE]
                       ELSE MarketsAdvance(pmarkets.cursor, pmarkets.page,
                                           pmarkets.offset, r)
    /\ presp' = [presp EXCEPT !.handled = TRUE]
    /\ UNCHANGED ptrades
    /\ PagingOnly

\* backfill_trades: from a response to the next request of the window, or out
\* of the page loop
PagingTrades ==
    /\ ~presp.handled /\ ptrades.more
    /\ LET r == NormalizePayload(presp.payload[1])
       IN  ptrades' = IF r.n = 0
                      THEN [ptrades EXCEPT !.more = FALSE]
                      ELSE BackfillAdvance(ptrades.cursor, ptrades.page,
                               [data |-> PagingData(r.n), next_cursor |-> r.next_cursor,
                                next_page |-> r.next_page])
    /\ presp' = [presp EXCEPT !.handled = TRUE]
    /\ UNCHANGED pmarkets
    /\ PagingOnly

\* no response yet
NoResponse == [payload |-> None, handled |-> TRUE]

\* the first request of fetch_all_markets, or of a window of backfill_trades
InitPaging ==
    /\ presp = NoResponse
    /\ \/ /\ pmarkets = [cursor |-> None, page |-> None, offset |-> Some(0), more |-> TRUE]
          /\ ptrades = [cursor |-> None, page |-> None, more |-> FALSE]
       \/ /\ pmarkets = [cursor |-> None, page |-> None, offset |-> Some(0), more |-> FALSE]
          /\ ptrades = [cursor |-> None, page |-> None, more |-> TRUE]

\* no page loop is looked at alone
PagingOff ==
    /\ presp = NoResponse
    /\ pmarkets = [cursor |-> None, page |-> None, offset |-> Some(0), more |-> FALSE]
    /\ ptrades = [cursor |-> None, page |-> None, more |-> FALSE]

\* ---------------------------------------------------------- specifications
vars == <<tradesVars, marketsVars, candlesVars, sinkVars, mainVars, raceVars, pagingVars, bookVars, apiVars>>

\* the trades worker alone
InitSpecTrades == InitTrades /\ MarketsIdle /\ CandlesOff /\ SinkOff /\ MainOff /\ RaceOff /\ PagingOff /\ BookOff /\ ApiOff

SpecTrades == InitSpecTrades /\ [][TradesNext]_vars

\* the markets worker alone
InitSpecMarkets == TradesOff /\ InitMarkets /\ CandlesOff /\ SinkOff /\ MainOff /\ RaceOff /\ PagingOff /\ BookOff /\ ApiOff

\* the candles worker alone
InitSpecCandles ==
    /\ clock \in Times
    /\ upstream = {} /\ upStyle = "list" /\ ckpt = CkAbsent
    /\ tpc = "off"
    /\ bnow = 0 /\ t0 = 0 /\ t1 = 0
    /\ cursor = None /\ page = None
    /\ submitted = {} /\ stored = {}
    /\ last_ts = None /\ now_iso = 0
    /\ wreqs = 0
    /\ pollres = PollNone /\ reqfail = FALSE
    /\ MarketsIdle
    /\ InitCandles
    /\ trades_v1 = [k \in TradeIds |->
                       [ts |-> k - 1, market_id |-> "a", price |-> Some(k), size |-> Some(1)]]
    /\ SinkOff
    /\ MainOff
    /\ RaceOff
    /\ PagingOff
    /\ BookOff /\ ApiOff

SpecCandles == InitSpecCandles /\ [][CandlesStep \/ Tick]_vars

\* the loop of run_candles_worker never stops taking its next step
FairCandles == SpecCandles /\ WF_vars(CandlesStep)

\* the candles worker on its first start, over every content of the trade store
InitSpecAggregate ==
    /\ clock \in {MaxTime - 1, MaxTime}
    /\ upstream = {} /\ upStyle = "list" /\ ckpt = CkAbsent
    /\ tpc = "off"
    /\ bnow = 0 /\ t0 = 0 /\ t1 = 0
    /\ cursor = None /\ page = None
    /\ submitted = {} /\ stored = {}
    /\ last_ts = None /\ now_iso = 0
    /\ wreqs = 0
    /\ pollres = PollNone /\ reqfail = FALSE
    /\ MarketsIdle
    /\ InitCandles
    /\ \A i \in 1..Len(Intervals) : cckpt[i] = CkAbsent
    /\ trades_v1 \in [TradeIds -> TradeSamples]
    /\ SinkOff
    /\ MainOff
    /\ RaceOff
    /\ PagingOff
    /\ BookOff /\ ApiOff

SpecAggregate == InitSpecAggregate /\ [][CandlesStep \/ Tick]_vars

\* the candles worker while trades keep arriving in the store
InitSpecLate ==
    /\ clock \in Times
    /\ upstream = {} /\ upStyle = "list" /\ ckpt = CkAbsent
    /\ tpc = "off"
    /\ bnow = 0 /\ t0 = 0 /\ t1 = 0
    /\ cursor = None /\ page = None
    /\ submitted = {} /\ stored = {}
    /\ last_ts = None /\ now_iso = 0
    /\ wreqs = 0
    /\ pollres = PollNone /\ reqfail = FALSE
    /\ MarketsIdle
    /\ InitCandles
    /\ trades_v1 = [k \in 1..1 |->
                       [ts |-> 0, market_id |-> "a", price |-> Some(1), size |-> Some(1)]]
    /\ SinkOff
    /\ MainOff
    /\ RaceOff
    /\ PagingOff
    /\ BookOff /\ ApiOff

SpecLate == InitSpecLate /\ [][CandlesStep \/ Tick \/ CandleTradeStored]_vars

\* one checkpointed stream, restarted: the trades worker or the candles worker
InitResume == InitSpecTrades \/ InitSpecCandles

SpecResume == InitResume /\ [][TradesStep \/ CandlesStep \/ Tick]_vars

SpecMarkets == InitSpecMarkets /\ [][MarketsStep]_vars

FairMarkets == SpecMarkets /\ WF_vars(MarketsStep)

\* time passes for a running trades worker
TradesTick == tpc # "off" /\ Tick

\* one fetching stream: the trades worker or the markets worker
InitSpecFetch == InitSpecTrades \/ InitSpecMarkets

SpecFetch == InitSpecFetch /\ [][TradesStep \/ TradesTick \/ MarketsStep]_vars

\* the worker's steps are scheduled fairly (the event loop runs a ready task)
FairTrades == SpecTrades /\ WF_vars(TradesStep)

\* the normalizers and the bulk sink of trades alone, under a running clock
InitSpecSink == TradesOff /\ MarketsIdle /\ CandlesOff /\ InitSink /\ MainOff /\ RaceOff /\ PagingOff /\ BookOff /\ ApiOff

SpecSink == InitSpecSink /\ [][SinkStep \/ Tick]_vars

\* main and its worker tasks, each worker seen as startup, cycle and sleep
InitSpecMain == TradesOff /\ MarketsIdle /\ CandlesOff /\ SinkOff /\ InitMain /\ RaceOff /\ PagingOff /\ BookOff /\ ApiOff

SpecMain == InitSpecMain /\ [][MainStep]_vars

\* the candles worker, killed and restarted at any point of a cycle
SpecCrash == InitSpecCandles /\ [][CandlesStep \/ Tick \/ CandleCrash]_vars

\* the rate limiter of the API under a running clock
InitSpecApi ==
    /\ TradesOff /\ MarketsIdle /\ CandlesOff /\ SinkOff /\ MainOff /\ RaceOff /\ PagingOff
    /\ BookOff
    /\ InitApi

SpecApi == InitSpecApi /\ [][RequireRateLimit \/ ApiTick]_vars

\* the orderbook worker alone
InitSpecBook ==
    /\ TradesOff /\ MarketsIdle /\ CandlesOff /\ SinkOff /\ MainOff /\ RaceOff /\ PagingOff
    /\ InitBook
    /\ ApiOff

SpecBook == InitSpecBook /\ [][BookStep \/ BookTick]_vars

\* one page loop, fetch_all_markets or a window of backfill_trades, against
\* an upstream that answers with any JSON value
InitSpecPaging ==
    /\ TradesOff /\ MarketsIdle /\ CandlesOff /\ SinkOff /\ MainOff /\ RaceOff
    /\ InitPaging
    /\ BookOff /\ ApiOff

SpecPaging == InitSpecPaging /\ [][PagingResponse \/ PagingMarkets \/ PagingTrades]_vars

\* two candles workers in the same bucket while trades arrive
InitSpecRace ==
    /\ TradesOff /\ MarketsIdle /\ SinkOff /\ MainOff
    /\ cpc = "off"
    /\ cckpt = [i \in 1..Len(Intervals) |-> CkAbsent]
    /\ cnow = 0 /\ ci = 1 /\ cb = 0
    /\ \E n \in 0..2 : trades_v1 \in [1..n -> TradeSamples]
    /\ candles_v1 = {}
    /\ cres = CresNone
    /\ InitRace
    /\ PagingOff
    /\ BookOff /\ ApiOff

SpecRace == InitSpecRace /\ [][RaceFetch \/ RaceIndex \/ RaceTradeStored]_vars

\* ------------------------------------------------------------------ claims
\* C1: whenever the trades checkpoint last_ts advances from P to P', every
\* record the upstream holds for the window [P, P'] has been submitted to the
\* sink by then.
C1_AdvanceOnlyAfterWholeWindow ==
    [][(ckpt.st = "ok" /\ ckpt'.st = "ok" /\ ckpt'.ts > ckpt.ts)
          => \A r \in upstream : (r >= ckpt.ts /\ r <= ckpt'.ts) => r \in submitted']_vars

\* C2: backfill_trades always returns: the incremental poll loop is eventually
\* reached, whatever pages the upstream returns.
C2_BackfillReturns == <>(tpc \in {"poll", "pollwait", "sleep"})

\* C4: with a readable saved checkpoint T, the stream's first fetch window starts
\* at T: the first window of backfill_trades, the `from` of the incremental poll
\* request, and the first bucket of a candle interval's catch-up loop.
C4_ResumeAtCheckpoint ==
    /\ [][(tpc = "start" /\ ckpt.st = "ok" /\ tpc' = "backfill") => t0' = ckpt.ts]_vars
    /\ [](tpc = "pollwait" /\ ckpt.st = "ok" => last_ts = Some(ckpt.ts))
    /\ [][(cpc = "interval" /\ cpc' = "bucket" /\ cckpt[ci].st = "ok")
            => cb' = cckpt[ci].ts]_vars

\* a candle interval whose catch-up loop stands at its saved checkpoint, which
\* is not where the default lookback would have put it
C4_Witness ==
    /\ cpc = "bucket"
    /\ cckpt[ci].st = "ok"
    /\ cb = cckpt[ci].ts
    /\ cb # AlignDown(cnow - CandlesLookback, IntervalToTimedelta(Intervals[ci])[1])

\* C3: fetch_all_markets issues at most 10000 page requests per invocation and
\* then returns, whatever the upstream answers.
C3_MarketsPageCeiling ==
    /\ [](mreqs <= SafetyPagesLimit)
    /\ (mpc = "fetch") ~> (mpc = "sleep")

\* a call of fetch_all_markets that was stopped by the ceiling has returned
C3_Witness == mpc = "sleep" /\ mreqs = SafetyPagesLimit /\ safety_pages > SafetyPagesLimit

\* C5: a raw trade that the store accepted twice, at whatever times of the
\* clock, and no other, leaves exactly one document across the trades_v1-*
\* partitions.
C5_OneDocumentPerTrade ==
    \A w \in Who :
        (wcount[w] = 2 /\ \A v \in Who \ {w} : wcount[v] = 0) => Cardinality(tstore) = 1

\* C6: a stored trade document is immutable: once written, a later write never
\* replaces or changes it.
C6_StoredTradeImmutable == [][\A d \in tstore : d \in tstore']_vars

\* C7: normalizing the same raw trade at two times of the clock gives the same
\* identity and the same payload.
C7_NormalizationIgnoresClock ==
    [][\A w \in Who :
          (Len(out[w]) = 2 /\ Len(out'[w]) = 2)
              => (out'[w][2].id = out[w][2].id /\ out'[w][2].src = out[w][2].src)]_vars

\* C8: two raw trades whose normalized documents are equal get the same
\* identity.
C8_EqualDocsSameIdentity ==
    \A v, w \in Who :
        (Len(out[v]) = 2 /\ Len(out[w]) = 2 /\ out[v][2].src = out[w][2].src)
            => out[v][2].id = out[w][2].id

\* C9: a batch with an ill-formed record (not a JSON object, or a numeric
\* timestamp past year 9999) raises no exception while its records are
\* normalized, and every well-formed record of the batch is submitted.
C9_MalformedNeverAbortsBatch ==
    lastCall # None =>
        /\ lastCall[1].outcome # "raised"
        /\ \A w \in Labels(lastCall[1].batch) :
              (/\ Raw(w).obj
               /\ ~(Raw(w).timestamp # None /\ IsNumber(Raw(w).timestamp[1])
                      /\ Raw(w).timestamp[1].n > 2932896))
                  => w \in lastCall[1].submitted

\* C10: 1704067200, 1704067200000 and "2024-01-01T00:00:00Z" all normalize to
\* the instant 2024-01-01T00:00:00+00:00, in the markets normalizer and in the
\* trades normalizer.
C10_ThreeSpellingsOneInstant ==
    (rawA.obj /\ rawA.timestamp \in {Some(JInt(19723)), Some(JInt(19723000)),
                                     Some(IsoStr(19723, 0, "Z"))})
        => /\ created_at # None => created_at = Some(Some(IsoStr(19723, 0, "+00:00")))
           /\ out["A"] # <<>> =>
                 /\ Len(out["A"]) = 2
                 /\ out["A"][2].src.ts = IsoStr(19723, 0, "+00:00")

\* C11 (as stated): when the store rejects some documents of the batch of a
\* poll cycle, the sink reports the number of the others, the others are
\* stored, no exception ends the cycle, and the checkpoint is saved at now_iso
\* as in a cycle without rejections.
C11_RejectionsTolerated ==
    [][(tpc = "pollwait" /\ tpc' = "sleep" /\ pollres'.errors # {})
          => LET data == FetchTrades(last_ts, now_iso, None, None, PageSize).data
             IN  /\ pollres'.count = Some(pollres'.n - Cardinality(pollres'.errors))
                 /\ (data \ pollres'.errors) \subseteq stored'
                 /\ data \subseteq submitted'
                 /\ pollres'.save # "none"
                 /\ pollres'.save = "written" => ckpt' = CkOk(now_iso)]_vars

\* C11 (amended): the same, for a batch of which the store rejects some
\* documents but not all.
C11_PartialRejectionsTolerated ==
    [][(/\ tpc = "pollwait" /\ tpc' = "sleep"
        /\ pollres'.errors # {}
        /\ Cardinality(pollres'.errors) < pollres'.n)
          => LET data == FetchTrades(last_ts, now_iso, None, None, PageSize).data
             IN  /\ pollres'.count = Some(pollres'.n - Cardinality(pollres'.errors))
                 /\ (data \ pollres'.errors) \subseteq stored'
                 /\ data \subseteq submitted'
                 /\ pollres'.save # "none"
                 /\ pollres'.save = "written" => ckpt' = CkOk(now_iso)]_vars

\* a poll cycle wrote one document of two and advanced the checkpoint
C11_Witness ==
    /\ tpc = "sleep"
    /\ pollres.n = 2 /\ Cardinality(pollres.errors) = 1 /\ pollres.count = Some(1)
    /\ pollres.save = "written"
    /\ ckpt.st = "ok"
    /\ pollres.errors \cap stored = {}

\* C12: an exception raised in one worker task, in a cycle or before its loop,
\* leaves every other worker task running: none of them is cancelled.
C12_SiblingsKeepRunning ==
    \A w \in Workers :
        tasks[w] = "raised" => \A v \in Workers \ {w} : tasks[v] # "cancelled"

\* C13: whatever fails in it, the trades worker begins a new cycle of its poll
\* loop again and again.
C13_CyclesForever == []<>(tpc = "poll")

\* C14: the trades worker issues no upstream request (a page request of the
\* backfill, or the request of a poll cycle) while a request of its has failed
\* and it has not slept since.
C14_SleepAfterFailedRequest ==
    [][((tpc = "poll" /\ tpc' = "pollwait") \/ tpc = "backfill") => ~reqfail]_vars

\* C15: with a checkpoint that is absent or unreadable, the stream's next fetch
\* window starts at now minus the default lookback: the first window of
\* backfill_trades, the `from` of the incremental poll request, and the first
\* bucket of a candle interval (the bucket that holds that instant).
C15_DefaultLookbackWithoutCheckpoint ==
    /\ [][(tpc = "start" /\ ckpt.st # "ok" /\ tpc' = "backfill")
            => t0' = clock - BackfillLookback]_vars
    /\ []((tpc = "pollwait" /\ ckpt.st # "ok")
            => last_ts = Some(now_iso - BackfillLookback))
    /\ [][(cpc = "interval" /\ cpc' = "bucket" /\ cckpt[ci].st # "ok")
            => cb' = AlignDown(cnow - CandlesLookback,
                               IntervalToTimedelta(Intervals[ci])[1])]_vars

\* C16: a save that fails leaves the persisted checkpoint at its previous
\* value: a checkpoint that can be read (of the trades worker, or of a candle
\* interval) can still be read after every step, with the value it had or the
\* value a save wrote.
C16_FailedSaveKeepsCheckpoint ==
    [][/\ ckpt.st = "ok" => ckpt'.st = "ok"
       /\ \A i \in 1..Len(Intervals) : cckpt[i].st = "ok" => cckpt'[i].st = "ok"]_vars


\* C17: every bucket start the catch-up loop hands to the trade query is a
\* multiple of the interval's step, the bucket after it starts exactly one
\* step later, and a stored trade with timestamp t is matched by the query of
\* a bucket exactly when that bucket starts at floor(t / step) * step
C17_BucketsAligned ==
    [][cpc = "bucket"
       => LET step == IntervalToTimedelta(Intervals[ci])[1]
          IN  /\ cb % step = 0
              /\ cpc' = "bucket" => cb' = cb + step
              /\ \A k \in TradeIds :
                    k \in RangeHits(cb, cb + step)
                    <=> cb = (trades_v1[k].ts \div step) * step]_vars

\* a trade at tick 1 is matched by the two-tick bucket that starts at tick 0
C17_Witness ==
    /\ cpc = "bucket" /\ ci = 2 /\ cb = 0
    /\ \E k \in TradeIds : trades_v1[k].ts = 1 /\ k \in RangeHits(cb, cb + 2)

\* C18: every bucket the candles worker fetches, computes and checkpoints ends
\* at or before the now read at the top of its cycle, for every interval and
\* every checkpoint on disk
C18_OnlyClosedBuckets ==
    cpc = "bucket" => cb + IntervalToTimedelta(Intervals[ci])[1] <= cnow

\* the last bucket the worker may take: it ends one tick before now
C18_Witness ==
    /\ cpc = "bucket"
    /\ cb + IntervalToTimedelta(Intervals[ci])[1] = cnow - 1
    /\ cckpt[ci].st = "ok"

\* the sum of the sizes of the trades at the positions of S
RECURSIVE SumSizes(_, _)
SumSizes(trades, S) ==
    IF S = {} THEN 0
    ELSE LET n == CHOOSE n \in S : TRUE
         IN  Size(trades[n]) + SumSizes(trades, S \ {n})

\* C19: a candle written for a bucket has, over the fetched trades of its
\* market in (ts, _id) order, open = the price of the first, close = the price
\* of the last, high = the largest price, low = the smallest price and
\* volume = the sum of the sizes; trades of other markets do not count
C19_CandleFromItsTrades ==
    [][cpc = "bucket"
       => LET step == IntervalToTimedelta(Intervals[ci])[1]
              trades == CandleFetchTrades(cb, cb + step, FetchLimit)
          IN  \A c \in candles_v1' \ candles_v1 :
                 LET mine == {n \in 1..Len(trades) : trades[n].market_id = c.market_id}
                     first == CHOOSE n \in mine : \A j \in mine : n <= j
                     last == CHOOSE n \in mine : \A j \in mine : j <= n
                     prices == {trades[n].price[1] :
                                   n \in {j \in mine : trades[j].price # None}}
                 IN  /\ mine # {}
                     /\ trades[first].price = Some(c.open)
                     /\ trades[last].price = Some(c.close)
                     /\ c.high \in prices /\ \A p \in prices : p <= c.high
                     /\ c.low \in prices /\ \A p \in prices : c.low <= p
                     /\ c.volume = SumSizes(trades, mine)]_vars

\* C20: a candle written for a bucket has the close and the volume of all the
\* stored trades of its market with ts in [bucket start, bucket end), however
\* many they are
C20_AllTradesOfBucket ==
    [][cpc = "bucket"
       => LET step == IntervalToTimedelta(Intervals[ci])[1]
              all == CandleFetchTrades(cb, cb + step, Cardinality(TradeIds))
          IN  \A c \in candles_v1' \ candles_v1 :
                 LET rows == MarketRows(all, c.market_id)
                 IN  /\ c.close = Price(rows[Len(rows)])
                     /\ c.volume = RowsVolume(rows)]_vars

\* C21: in the processing of a bucket the checkpoint is saved only after the
\* bulk write of the bucket's candles has returned, a save that succeeds leaves
\* exactly the bucket's end in the interval's checkpoint and touches no other
\* interval's, and when the trade query or the bulk write raises no
\* checkpoint changes
C21_UpsertThenCheckpoint ==
    [][cpc = "bucket"
       => LET bend == cb + IntervalToTimedelta(Intervals[ci])[1]
          IN  /\ cres'.save # "none" => cres'.bulk = "returned"
              /\ cres'.bulk # "returned" => cckpt' = cckpt
              /\ cres'.save = "written" => cckpt'[ci] = CkOk(bend)
              /\ \A i \in 1..Len(Intervals) :
                    (cckpt'[i] # cckpt[i] /\ cckpt'[i].st = "ok")
                    => (i = ci /\ cckpt'[i].ts = bend)]_vars

\* a bucket whose candle is in the store and whose end is the checkpoint
C21_Witness ==
    /\ cres.bulk = "returned" /\ cres.save = "written"
    /\ \E c \in candles_v1 : \E i \in 1..Len(Intervals) :
          /\ Intervals[i] = c.interval
          /\ cckpt[i] = CkOk(c.open_time + IntervalToTimedelta(c.interval)[1])

\* C22: a trade that names no market (no market_id and no conditionId) is
\* dropped before its identity is generated; no document without a market id
\* is in the trade store
C22_NoTradeWithoutMarket ==
    \A d \in tstore : Truthy(d.src.market_id)

\* C23: a page request that fails ends the fetch call with its exception: a
\* markets cycle whose fetch_all_markets raised hands nothing to the store,
\* and the step of backfill_trades in which the request fails leaves the
\* checkpoint as it was
C23_FailedPageAbortsFetch ==
    [][/\ mres'.fetch = "raised" => mres'.upserted = 0
       /\ (tpc = "backfill" /\ reqfail') => (ckpt' = ckpt /\ tpc' # "backfill")]_vars

\* a markets cycle that failed after a page was collected
C23_Witness ==
    mres.fetch = "raised" /\ safety_pages > 1

\* C24: when two workers of the candles stream have processed the same bucket
\* concurrently, the candle index holds what one worker writes that processes
\* the bucket once with the trades of the later of the two queries; a candle
\* of the earlier query never replaces one of the later query
C24_ConcurrentWorkersConverge ==
    (\A w \in RaceWorkers : rpc[w] = "done")
    => candles_v1 = ComputeCandles(rtrades[rorder[Len(rorder)]], RaceInterval, RaceBucket)

\* C25: when the candles worker is killed at any point of a cycle, also inside
\* _save_checkpoint, every interval's checkpoint read after the restart is the
\* one before the interrupted bucket or the end of that bucket
C25_CrashKeepsCheckpoint ==
    [][(cpc \in {"interval", "bucket"} /\ cpc' = "cycle")
       => \A i \in 1..Len(Intervals) :
             \/ cckpt'[i].st = "ok" /\ cckpt[i].st = "ok" /\ cckpt'[i].ts = cckpt[i].ts
             \/ cckpt'[i].st # "ok" /\ cckpt[i].st # "ok"
             \/ /\ cpc = "bucket" /\ i = ci
                /\ cckpt'[i] = CkOk(cb + IntervalToTimedelta(Intervals[ci])[1])]_vars

\* C26: after a non-empty page the next request carries the cursor the
\* response returned and nothing else; or, the response having no cursor, the
\* page index it echoed and nothing else; or, the response having neither and
\* being full, the position one page further and no cursor; after a short page
\* with neither the fetch ends.  For fetch_all_markets and for the page loop
\* of backfill_trades
C26_NextRequestByPreference ==
    [][(~presp.handled /\ presp'.handled /\ NormalizePayload(presp.payload[1]).n > 0)
       => LET r == NormalizePayload(presp.payload[1])
          IN  /\ pmarkets.more
                 => LET nx == pmarkets'
                    IN  IF r.next_cursor # None
                        THEN nx = [cursor |-> r.next_cursor, page |-> None,
                                   offset |-> None, more |-> TRUE]
                        ELSE IF r.next_page # None
                        THEN nx = [cursor |-> None, page |-> r.next_page,
                                   offset |-> None, more |-> TRUE]
                        ELSE IF r.n < PageSize
                        THEN ~nx.more
                        ELSE /\ nx.more /\ nx.cursor = None /\ nx.page = None
                             /\ nx.offset = Some(Min((IF pmarkets.offset = None THEN 0
                                                      ELSE pmarkets.offset[1]) + 1,
                                                     PageCap))
              /\ ptrades.more
                 => LET nx == ptrades'
                    IN  IF r.next_cursor # None
                        THEN nx = [cursor |-> r.next_cursor, page |-> None, more |-> TRUE]
                        ELSE IF r.next_page # None
                        THEN nx = [cursor |-> None, page |-> r.next_page, more |-> TRUE]
                        ELSE IF r.n < PageSize
                        THEN ~nx.more
                        ELSE nx.more /\ nx.cursor = None /\ nx.page # None]_vars

\* C27: a JSON response that is neither a list nor an object with a list
\* under `data` yields no record, and the page loop that received it has
\* ended once the response is handled: no further request, no error state
C27_UnrecognizedShapeIsEmpty ==
    (presp.payload # None /\ ~Recognized(presp.payload[1]))
        => /\ NormalizePayload(presp.payload[1]).n = 0
           /\ presp.handled => (~pmarkets.more /\ ~ptrades.more)

\* an object with a string under `data` and a cursor ended a page loop of
\* backfill_trades that had gone round, and a scalar ended fetch_all_markets
C27_Witness ==
    /\ presp.handled /\ presp.payload # None
    /\ ~pmarkets.more /\ ~ptrades.more
    /\ \/ /\ presp.payload[1].kind = "object" /\ presp.payload[1].data.kind = "string"
          /\ presp.payload[1].next_cursor = Some("c1")
          /\ ptrades.page # None
       \/ /\ presp.payload[1].kind = "number"
          /\ pmarkets.cursor # None

\* C28: the candles worker goes to sleep only out of the last configured
\* interval: every interval of the cycle has had its catch-up loop, whatever
\* happened in the intervals before it
C28_EveryIntervalBeforeSleep ==
    [][(cpc # "sleep" /\ cpc' = "sleep") => ci = Len(Intervals)]_vars

\* C29: a cycle of the orderbook worker goes to sleep only after the last
\* side of the last configured market has been polled, whatever happened to
\* the requests before it
C29_EveryMarketAndSidePolled ==
    [][(opc = "poll" /\ opc' = "sleep")
       => (om = Len(OrderbookMarketIds) /\ oside = Len(OrderbookSides))]_vars

\* C30: every snapshot in the store has at most ORDERBOOK_DEPTH levels; no
\* two documents of the store have the same market, side and timestamp; a
\* snapshot that a poll writes carries the timestamp read at the top of the
\* cycle and the first levels of the response, in the order of the response
C30_SnapshotShape ==
    [][/\ \A d \in snapshots' : Len(d.levels) <= OrderbookDepth
       /\ \A d1, d2 \in snapshots' :
             (d1.market_id = d2.market_id /\ d1.side = d2.side /\ d1.ts = d2.ts) => d1 = d2
       /\ \A d \in snapshots' \ snapshots :
             /\ d.ts = ots
             /\ ob'.levels # None
             /\ d.levels = SubSeq(ob'.levels[1], 1, Len(d.levels))]_vars

\* both markets have a snapshot of the same cycle, full to the depth, one of
\* them written after the clock had moved on, and a second cycle has written
C30_Witness ==
    /\ clock > ots
    /\ \E d1, d2, d3 \in snapshots :
          /\ d1.market_id = "a" /\ d2.market_id = "b"
          /\ d1.ts = ots /\ d2.ts = ots
          /\ d1.levels # d2.levels
          /\ Len(d1.levels) = OrderbookDepth
          /\ d3.ts < ots

\* C31 as stated: no two stored candles have the same market, interval and
\* open time, and when the pass over a bucket has returned from the bulk write
\* every candle it computed is the stored candle of its market for the bucket
C31_StoredIsLatestPass ==
    [][cpc = "bucket"
       => LET step == IntervalToTimedelta(Intervals[ci])[1]
              computed == ComputeCandles(CandleFetchTrades(cb, cb + step, FetchLimit),
                                         Intervals[ci], cb)
          IN  /\ \A d1, d2 \in candles_v1' : CandleId(d1) = CandleId(d2) => d1 = d2
              /\ cres'.bulk = "returned" => \A c \in computed : c \in candles_v1']_vars

\* C31: no two stored candles have the same market, interval and open time; a
\* pass over a bucket leaves under each id either the candle it computed or
\* the candle that was stored before, whole, never a candle made of both, and
\* a candle leaves the store only for a computed candle of the same id
C31_OverwrittenNotMerged ==
    [][cpc = "bucket"
       => LET step == IntervalToTimedelta(Intervals[ci])[1]
              computed == ComputeCandles(CandleFetchTrades(cb, cb + step, FetchLimit),
                                         Intervals[ci], cb)
          IN  /\ \A d1, d2 \in candles_v1' : CandleId(d1) = CandleId(d2) => d1 = d2
              /\ \A d \in candles_v1' \ candles_v1 : d \in computed
              /\ \A d \in candles_v1 \ candles_v1' :
                    \E c \in computed : CandleId(c) = CandleId(d) /\ c \in candles_v1']_vars

\* a pass has replaced the candle of a bucket by one computed from more trades
C31_Witness ==
    /\ cres.bulk = "returned" /\ cres.replaced
    /\ \E c \in candles_v1 : c.market_id = "a" /\ c.open_time = 0 /\ c.volume > 1

\* C32: while the checkpoint of an interval is readable, the bucket being
\* fetched and computed for that interval starts at or after the checkpoint,
\* and every candle written carries such a bucket: a bucket that ends at or
\* before the checkpoint is not processed again
C32_NoBucketBehindCheckpoint ==
    [][(cpc = "bucket" /\ cckpt[ci].st = "ok")
       => /\ cb >= cckpt[ci].ts
          /\ \A c \in candles_v1' \ candles_v1 : c.open_time >= cckpt[ci].ts]_vars

\* a trade of bucket 0 reached the store after the candle of the bucket was
\* written; the worker has since processed bucket 1, which holds a trade
\* stored later still, and the candle of bucket 0 is without the late trade
C32_Witness ==
    /\ DOMAIN trades_v1 = 1..3
    /\ trades_v1[2].ts = 0 /\ trades_v1[2].market_id = "a"
    /\ trades_v1[3].ts = 1 /\ trades_v1[3].market_id = "a"
    /\ cckpt[1].st = "ok" /\ cckpt[1].ts >= 2
    /\ \E c0, c1 \in candles_v1 :
          /\ c0.market_id = "a" /\ c0.interval = Intervals[1] /\ c0.open_time = 0
          /\ c0.volume = 1
          /\ c1.market_id = "a" /\ c1.interval = Intervals[1] /\ c1.open_time = 1
          /\ c1.close = 3

\* C33: a save that succeeds writes a later time than the readable checkpoint
\* it replaces, and, when the checkpoint was unreadable in between, a later
\* time than the last one that was readable; a step that changes the
\* checkpoint of an interval changes it for the interval being processed only
\* and leaves the checkpoints of the trades and orderbook workers alone
C33_CheckpointsIncrease ==
    /\ [][/\ \A i \in 1..Len(Intervals) :
                cckpt'[i] # cckpt[i] => (i = ci /\ ckpt' = ckpt /\ ockpt' = ockpt)
          /\ (cpc = "bucket" /\ cres'.save = "written" /\ cckpt[ci].st = "ok")
                => cckpt'[ci].ts > cckpt[ci].ts]_vars
    /\ \A i \in 1..Len(Intervals) : \A t \in (0 - CandlesLookback)..MaxTime :
          [](cckpt[i] = CkOk(t)
             => [](cckpt[i].st # "ok" => [](cckpt[i].st = "ok" => cckpt[i].ts > t)))

\* C34: once the trades checkpoint has held a time, every readable value it
\* holds afterwards, written by a backfill window or by a poll, is that time
\* or a later one; a poll cycle whose request failed or whose bulk write
\* raised (no count) or which wrote no document (count 0) leaves the
\* checkpoint file as it was
C34_LastTsNeverBackward ==
    /\ [][(tpc = "pollwait" /\ pollres'.count \in {None, Some(0)}) => ckpt' = ckpt]_vars
    /\ \A t \in (0 - BackfillLookback)..MaxTime :
          [](ckpt = CkOk(t) => [](ckpt.st = "ok" => ckpt.ts >= t))

\* a poll in which the store rejected every document has left a checkpoint
\* that an earlier save had moved
C34_Witness ==
    /\ tpc = "sleep"
    /\ pollres.n > 0 /\ pollres.count = Some(0)
    /\ stored # {}
    /\ ckpt.st = "ok" /\ ckpt.ts > 0 /\ ckpt.ts < clock

\* C35: the first page request of a window of backfill_trades is sent with
\* neither a cursor nor a page index, and no page request of a window is sent
\* with both
C35_PaginationPerWindow ==
    tpc = "backfill"
        => /\ wreqs = 0 => (cursor = None /\ page = None)
           /\ ~(cursor # None /\ page # None)

\* C36: the first window of a backfill starts at the start time of the run
\* and `now` is the clock at that moment; every window is not empty, at most
\* WindowWidth wide and ends at or before `now`; a window follows another one
\* only when that one ended before `now`, and starts at its end; the run
\* saves its last checkpoint and returns only from a window that ends at `now`
C36_WindowsTile ==
    [][/\ (tpc = "start" /\ tpc' = "backfill")
          => (t0' = BackfillStartTime(LoadLastTs, clock) /\ bnow' = clock)
       /\ tpc' = "backfill"
          => (t0' < t1' /\ t1' <= t0' + WindowWidth /\ t1' <= bnow')
       /\ (tpc = "backfill" /\ tpc' = "backfill")
          => /\ bnow' = bnow
             /\ t0' # t0 => (t0' = t1 /\ t1 < bnow)
             /\ t0' = t0 => t1' = t1
       /\ (tpc = "backfill" /\ tpc' = "poll" /\ ckpt' # ckpt) => t1 = bnow]_vars

\* a later window of a run, narrower than WindowWidth, ends at `now`; the end
\* of the window before it is the saved checkpoint and a trade of that window
\* has been submitted
C36_Witness ==
    /\ tpc = "backfill"
    /\ t1 = bnow /\ t1 - t0 < WindowWidth
    /\ ckpt = CkOk(t0)
    /\ \E r \in submitted : r < t0

\* C37: every candle computed for a bucket has low <= open <= high and
\* low <= close <= high and is the candle of a non-empty market id that one of
\* the fetched trades carries; the candles written in the pass are among the
\* computed ones, and a bucket without fetched trades writes none
C37_CandleWellFormed ==
    [][cpc = "bucket"
       => LET step == IntervalToTimedelta(Intervals[ci])[1]
              trades == CandleFetchTrades(cb, cb + step, FetchLimit)
              computed == ComputeCandles(trades, Intervals[ci], cb)
          IN  /\ \A c \in computed :
                    /\ c.low <= c.open /\ c.open <= c.high
                    /\ c.low <= c.close /\ c.close <= c.high
                    /\ c.market_id # ""
                    /\ \E n \in 1..Len(trades) : trades[n].market_id = c.market_id
              /\ \A c \in candles_v1' \ candles_v1 : c \in computed
              /\ trades = <<>> => candles_v1' = candles_v1]_vars

\* a falling candle is in the store, the store has a trade without market id
\* in a processed bucket, and no candle is stored for it
C37_Witness ==
    /\ \E c \in candles_v1 : c.low < c.high /\ c.open = c.high /\ c.close = c.low
    /\ \E k \in DOMAIN trades_v1 :
          /\ trades_v1[k].market_id = ""
          /\ \E c \in candles_v1 : c.open_time <= trades_v1[k].ts
    /\ \A c \in candles_v1 : c.market_id # ""

\* C38: the original wording: a call of allow() that returns false leaves
\* daily_used as it was and takes no token
C38_RejectedCallChangesNothing ==
    [][\A k \in ApiKeys :
          (clock' = clock /\ buckets'[k] # buckets[k] /\ buckets[k] # None
             /\ lastreq'.key = Some(k) /\ lastreq'.result = "429")
          => /\ buckets'[k][1].daily_used = buckets[k][1].daily_used
             /\ buckets'[k][1].tokens >= buckets[k][1].tokens]_vars

\* C38: under a clock that never goes back every bucket keeps
\* 0 <= tokens <= capacity and daily_used <= daily_cap, allow() returns true at
\* most daily_cap times in one UTC day, and a call that returns false takes no
\* token and never raises daily_used: it leaves daily_used as it was, or sets
\* it to 0 when it is the first call of a new UTC day
C38_BucketWithinLimits ==
    /\ [](\A k \in ApiKeys :
            /\ grants[k] <= apienv.daily_cap
            /\ buckets[k] # None
               => /\ 0 <= buckets[k][1].tokens
                  /\ buckets[k][1].tokens <= buckets[k][1].capacity
                  /\ 0 <= buckets[k][1].daily_used
                  /\ buckets[k][1].daily_used <= buckets[k][1].daily_cap)
    /\ [][\A k \in ApiKeys :
            (clock' = clock /\ buckets'[k] # buckets[k] /\ buckets[k] # None
               /\ lastreq'.key = Some(k) /\ lastreq'.result = "429")
            => /\ buckets'[k][1].tokens >= buckets[k][1].tokens
               /\ \/ buckets'[k][1].daily_used = buckets[k][1].daily_used
                  \/ /\ buckets'[k][1].daily_used = 0
                     /\ buckets'[k][1].day_start # buckets[k][1].day_start]_vars

\* a key has used its whole daily cap and its last call was turned down with
\* tokens left in the bucket
C38_Witness ==
    \E k \in ApiKeys :
        /\ buckets[k] # None
        /\ lastreq = [key |-> Some(k), result |-> "429"]
        /\ grants[k] > 0
        /\ grants[k] = apienv.daily_cap
        /\ buckets[k][1].daily_used = buckets[k][1].daily_cap
        /\ buckets[k][1].tokens >= TokenUnit

====
